---- MODULE Spec2Model ----
(***************************************************************************)
(* Authentication and session trust of the PrimeTrade task application:    *)
(* the credential store (User model), the login and register routes, the   *)
(* OAuth signIn callback, the unified authenticator, the boundary          *)
(* middleware and the in-memory rate limiters.                             *)
(*                                                                         *)
(* Time is in milliseconds, as Date.now() in the source.                   *)
(***************************************************************************)
EXTENDS Integers, Sequences, FiniteSets, TLC

VARIABLES
  now,            \* Date.now()
  users,          \* the User collection; _id of a document is its index
  rateLimitStore, \* rateLimiter.ts: Map<string, RateLimitEntry>
  loginAttempts,  \* rateLimiter.ts: login backoff Map<string, {count,lastAttempt}>
  inflight,       \* per worker: a handler suspended at an await
  resp,           \* the response of the handler that completed last
  loginLog,       \* history: per address, the requests POST /api/auth/login
                  \* received in the 15 minutes that began with the first of them
  unswept,        \* history: rateLimitStore as it would be had no sweep run
  tasks           \* the Task collection; _id of a document is its index

vars ==
  <<now, users, rateLimitStore, loginAttempts, inflight, resp, loginLog, unswept,
    tasks>>

----------------------------------------------------------------------------
(* Bounds of the model *)

MaxUsers == 2        \* documents the collection may hold
MaxRLCount == 1     \* cap of a generic rate-limit entry's count
MaxBackoff == 2      \* cap of a backoff entry's count
MaxAttempts == 6     \* cap of an account's loginAttempts
MaxHours == 2        \* lock periods the clock may run through
MaxSecs == 1         \* seconds the clock may run into each of them
MaxWindowCount == 12 \* cap of a count, where the generic limiter is called directly
MaxWindows == 2      \* limiter windows the clock may run through
MaxTasks == 2        \* tasks that may be created
MaxApiCalls == 4     \* requests an address sends to the task routes in a window
MaxPow == 11         \* the backoff clock runs to 2^MaxPow seconds and one cap more
\* the handlers that may be suspended at the same time
Procs == {1, 2}

----------------------------------------------------------------------------
(* Program constants *)

MAX_LOGIN_ATTEMPTS == 5
LOCK_TIME == 2 * 60 * 60 * 1000
AuthWindowMs == 15 * 60 * 1000
AuthMaxRequests == 10
ApiWindowMs == 60 * 1000
ApiMaxRequests == 100
BackoffBaseMs == 1000
BackoffCapMs == 30 * 60 * 1000
PasswordMinLength == 8
ZodPasswordMin == 6
ZodLoginPasswordMin == 6

NoDate == -1

----------------------------------------------------------------------------
(* Inputs of the requests *)

RawEmails == {"a@x.io", "A@x.io", "b@x.io", "bad"}
Passwords == {"Passw0rd!", "Wr0ng#Pass1", "Abc12!x", "weak"}
FirstNameInputs == {"Ann", "<b></b>"}
LastNameInputs == {"Lee", "<i>Ray</i>"}
Xffs == {<<>>, <<"10.0.0.1", "10.0.0.9">>}
OAuthProviders == {"google", "github"}
OAuthNames == {<<"Bob", "Ray">>, <<"Bob">>}
OAuthImages == {"", "pic"}

\* String.prototype.toLowerCase on the e-mail inputs
toLowerCase(e) == IF e = "A@x.io" THEN "a@x.io" ELSE e

\* zod .email(): the only malformed input is "bad"
IsEmail(e) == e # "bad"

\* none of the inputs holds white space or one of < > ' " : what is left of
\* toLowerCase().trim().replace(...) is the lower-casing
sanitizeEmail(e) == toLowerCase(e)

\* sanitize-html with no allowed tag: the tags go, the text stays
sanitizeInput(s) ==
  CASE s = "<b></b>" -> ""
    [] s = "<i>Ray</i>" -> "Ray"
    [] OTHER -> s

\* what the regular expressions of the validators see in a password
PwInfo(p) ==
  CASE p = "Passw0rd!" -> [len |-> 9, lower |-> TRUE, upper |-> TRUE, digit |-> TRUE, symbol |-> TRUE, common |-> FALSE]
    [] p = "Wr0ng#Pass1" -> [len |-> 11, lower |-> TRUE, upper |-> TRUE, digit |-> TRUE, symbol |-> TRUE, common |-> FALSE]
    [] p = "Abc12!x" -> [len |-> 7, lower |-> TRUE, upper |-> TRUE, digit |-> TRUE, symbol |-> TRUE, common |-> FALSE]
    [] OTHER -> [len |-> 4, lower |-> TRUE, upper |-> FALSE, digit |-> FALSE, symbol |-> FALSE, common |-> FALSE]

B2N(b) == IF b THEN 1 ELSE 0

Max(a, b) == IF a >= b THEN a ELSE b
Min(a, b) == IF a <= b THEN a ELSE b

\* ceil(a / b) for a >= 0, b > 0
CeilDiv(a, b) == (a + b - 1) \div b

validatePasswordStrength(p) ==
  LET i == PwInfo(p)
      raw == B2N(i.len >= 8) + B2N(i.len >= 12) + B2N(i.lower) + B2N(i.upper)
             + B2N(i.digit) + B2N(i.symbol)
      score == IF i.common THEN Max(0, raw - 2) ELSE raw
  IN [isValid |-> score >= 4, score |-> score]

\* loginSchema: an e-mail and a password of at least 6 characters
loginSchemaOk(email, pw) ==
  IsEmail(email) /\ PwInfo(pw).len >= ZodLoginPasswordMin

\* registerSchema: e-mail, password of at least 6 characters with a lower
\* case letter, an upper case letter and a digit, matching confirmation
registerSchemaOk(email, pw, confirm) ==
  /\ IsEmail(email)
  /\ PwInfo(pw).len >= ZodPasswordMin
  /\ PwInfo(pw).lower /\ PwInfo(pw).upper /\ PwInfo(pw).digit
  /\ pw = confirm

\* changePasswordSchema: the same rule for newPassword
changePasswordSchemaOk(pw, confirm) ==
  /\ PwInfo(pw).len >= ZodPasswordMin
  /\ PwInfo(pw).lower /\ PwInfo(pw).upper /\ PwInfo(pw).digit
  /\ pw = confirm

----------------------------------------------------------------------------
(* Password hasher *)

NoPassword == <<>>
bcryptHash(p) == <<"bcrypt", p>>
bcryptCompare(candidate, digest) == digest = <<"bcrypt", candidate>>

----------------------------------------------------------------------------
(* Credential store: the User model *)

NullDoc ==
  [_id |-> 0, email |-> "", password |-> NoPassword, firstName |-> "",
   lastName |-> "", avatar |-> "", provider |-> "", providerId |-> "",
   emailVerified |-> FALSE, loginAttempts |-> 0, lockUntil |-> NoDate,
   lastLogin |-> NoDate]

\* the defaults of userSchema
NewDoc(id, email, first, last, avatar, provider, providerId, verified) ==
  [_id |-> id, email |-> email, password |-> NoPassword, firstName |-> first,
   lastName |-> last, avatar |-> avatar, provider |-> provider,
   providerId |-> providerId, emailVerified |-> verified, loginAttempts |-> 0,
   lockUntil |-> NoDate, lastLogin |-> NoDate]

Ids(us) == DOMAIN us

\* User.findOne({ email }): the lowercase setter of the schema is applied to
\* the filter; 0 when there is no such document
findOne(us, email) ==
  IF \E i \in Ids(us) : us[i].email = toLowerCase(email)
    THEN CHOOSE i \in Ids(us) : us[i].email = toLowerCase(email)
    ELSE 0

findById(us, id) == IF id \in Ids(us) THEN id ELSE 0

DocOf(us, i) == IF i \in Ids(us) THEN us[i] ELSE NullDoc

\* the validators of userSchema, run by save() and create() before the
\* pre('save') hook: plain is the plaintext password being set, "" if the
\* password path is not modified
schemaValid(doc, plain) ==
  /\ IsEmail(doc.email)
  /\ doc.firstName # ""
  /\ doc.lastName # ""
  /\ doc.provider \in {"credentials", "google", "github"}
  /\ (plain # "" => PwInfo(plain).len >= PasswordMinLength)

\* the unique index on email
uniqueOk(us, doc) ==
  \A i \in Ids(us) : i # doc._id => us[i].email # doc.email

\* a save that stores the password as it was given
MutPreSave(doc, plain) ==
  IF plain = "" THEN doc ELSE [doc EXCEPT !.password = <<"plain", plain>>]

\* pre('save'): a modified, non-empty password is replaced by its hash
preSave(doc, plain) ==
  IF plain = "" THEN doc ELSE [doc EXCEPT !.password = bcryptHash(plain)]

\* comparePassword
comparePassword(doc, candidate) ==
  IF doc.password = NoPassword THEN FALSE
  ELSE bcryptCompare(candidate, doc.password)

\* isLocked, at time t
isLocked(doc, t) == doc.lockUntil # NoDate /\ doc.lockUntil > t

\* a method that locks the account one failure late
MutIncrementUpdate(this, t) ==
  IF this.lockUntil # NoDate /\ this.lockUntil < t
    THEN [kind |-> "restart", lock |-> NoDate]
    ELSE IF this.loginAttempts + 1 > MAX_LOGIN_ATTEMPTS /\ ~isLocked(this, t)
      THEN [kind |-> "inc", lock |-> t + LOCK_TIME]
      ELSE [kind |-> "inc", lock |-> NoDate]

\* incrementLoginAttempts: the update document the method builds from the
\* fields of the document it was called on (this), at time t
incrementUpdate(this, t) ==
  IF this.lockUntil # NoDate /\ this.lockUntil < t
    THEN [kind |-> "restart", lock |-> NoDate]
    ELSE IF this.loginAttempts + 1 >= MAX_LOGIN_ATTEMPTS /\ ~isLocked(this, t)
      THEN [kind |-> "inc", lock |-> t + LOCK_TIME]
      ELSE [kind |-> "inc", lock |-> NoDate]

\* updateOne: the update applied atomically to the stored document
applyIncrement(stored, upd) ==
  IF upd.kind = "restart"
    THEN [stored EXCEPT !.loginAttempts = 1, !.lockUntil = NoDate]
    ELSE IF upd.lock # NoDate
      THEN [stored EXCEPT !.loginAttempts = @ + 1, !.lockUntil = upd.lock]
      ELSE [stored EXCEPT !.loginAttempts = @ + 1]

\* a reset that leaves the lock in place
MutApplyReset(stored, t) ==
  [stored EXCEPT !.loginAttempts = 0, !.lastLogin = t]

\* resetLoginAttempts
applyReset(stored, t) ==
  [stored EXCEPT !.loginAttempts = 0, !.lastLogin = t, !.lockUntil = NoDate]

----------------------------------------------------------------------------
(* Rate limiter *)

\* Map.set and Map.delete on a map held as a function
MapSet(m, k, v) == [x \in (DOMAIN m) \cup {k} |-> IF x = k THEN v ELSE m[x]]
MapDelete(m, k) == [x \in (DOMAIN m) \ {k} |-> m[x]]
EmptyMap == [x \in {} |-> 0]

\* x-forwarded-for, already split at the commas: the first address, or
\* 'unknown' when the header is absent
clientIp(xff) == IF xff = <<>> THEN "unknown" ELSE Head(xff)

getRateLimitKey(ip, path) == ":" \o ip \o ":" \o path

rateLimitConfigs ==
  [auth |-> [windowMs |-> AuthWindowMs, maxRequests |-> AuthMaxRequests],
   api |-> [windowMs |-> ApiWindowMs, maxRequests |-> ApiMaxRequests]]

\* a limiter whose refused requests push the end of the window forward
MutRateLimitStep(store, key, config, t) ==
  IF key \notin DOMAIN store \/ store[key].resetTime < t
    THEN [store |-> MapSet(store, key, [count |-> 1, resetTime |-> t + config.windowMs]),
          allowed |-> TRUE,
          remaining |-> config.maxRequests - 1,
          resetTime |-> t + config.windowMs,
          waitTime |-> 0]
    ELSE LET count == store[key].count + 1
             allowed == count <= config.maxRequests
             resetTime == IF allowed THEN store[key].resetTime ELSE t + config.windowMs
         IN [store |-> MapSet(store, key, [count |-> count, resetTime |-> resetTime]),
             allowed |-> allowed,
             remaining |-> Max(0, config.maxRequests - count),
             resetTime |-> resetTime,
             waitTime |-> IF allowed THEN 0 ELSE CeilDiv(resetTime - t, 1000)]

\* the body shared by checkRateLimit and checkRateLimitByType, at time t
rateLimitStep(store, key, config, t) ==
  IF key \notin DOMAIN store \/ store[key].resetTime < t
    THEN [store |-> MapSet(store, key, [count |-> 1, resetTime |-> t + config.windowMs]),
          allowed |-> TRUE,
          remaining |-> config.maxRequests - 1,
          resetTime |-> t + config.windowMs,
          waitTime |-> 0]
    ELSE LET count == store[key].count + 1
             allowed == count <= config.maxRequests
         IN [store |-> MapSet(store, key, [store[key] EXCEPT !.count = count]),
             allowed |-> allowed,
             remaining |-> Max(0, config.maxRequests - count),
             resetTime |-> store[key].resetTime,
             waitTime |-> IF allowed THEN 0
                          ELSE CeilDiv(store[key].resetTime - t, 1000)]

checkRateLimit(store, ip, path, config, t) ==
  rateLimitStep(store, getRateLimitKey(ip, path), config, t)

checkRateLimitByType(store, type, ip, t) ==
  rateLimitStep(store, type \o ":" \o ip, rateLimitConfigs[type], t)

\* a sweep that also takes the entries whose window ends at this instant
MutSweep(store, t) ==
  [k \in {x \in DOMAIN store : ~(store[x].resetTime > t)} |-> store[k]]

\* the setInterval callback: every entry with resetTime < now is deleted
sweep(store, t) ==
  [k \in {x \in DOMAIN store : ~(store[x].resetTime < t)} |-> store[k]]

RECURSIVE Pow2(_)
Pow2(n) == IF n <= 0 THEN 1 ELSE 2 * Pow2(n - 1)

loginKey(ip, email) == "login:" \o ip \o ":" \o email

\* a backoff without the cap of 30 minutes
MutBackoffCap(count) == Pow2(count - 1) * BackoffBaseMs

\* a backoff whose exponent is one too small
MutBackoffWait(count) == Min(Pow2(count - 2) * BackoffBaseMs, BackoffCapMs)

\* the wait the backoff entry imposes: 2^(count-1) seconds, at most 30 minutes
backoffWait(count) == Min(Pow2(count - 1) * BackoffBaseMs, BackoffCapMs)

\* a backoff whose refused attempts count as the last attempt
MutCheckLoginRateLimit(map, ip, email, t) ==
  LET key == loginKey(ip, email) IN
  IF key \notin DOMAIN map
    THEN [map |-> MapSet(map, key, [count |-> 1, lastAttempt |-> t]),
          allowed |-> TRUE, waitTime |-> 0]
    ELSE LET attempt == map[key]
             waitTime == backoffWait(attempt.count)
             timeSinceLastAttempt == t - attempt.lastAttempt
         IN IF timeSinceLastAttempt >= waitTime
              THEN [map |-> IF timeSinceLastAttempt >= BackoffCapMs
                              THEN MapSet(map, key, [count |-> 1, lastAttempt |-> t])
                              ELSE MapSet(map, key, [count |-> attempt.count + 1,
                                                     lastAttempt |-> t]),
                    allowed |-> TRUE, waitTime |-> 0]
              ELSE [map |-> MapSet(map, key, [attempt EXCEPT !.lastAttempt = t]),
                    allowed |-> FALSE,
                    waitTime |-> CeilDiv(waitTime - timeSinceLastAttempt, 1000)]

checkLoginRateLimit(map, ip, email, t) ==
  LET key == loginKey(ip, email) IN
  IF key \notin DOMAIN map
    THEN [map |-> MapSet(map, key, [count |-> 1, lastAttempt |-> t]),
          allowed |-> TRUE, waitTime |-> 0]
    ELSE LET attempt == map[key]
             waitTime == backoffWait(attempt.count)
             timeSinceLastAttempt == t - attempt.lastAttempt
         IN IF timeSinceLastAttempt >= waitTime
              THEN [map |-> IF timeSinceLastAttempt >= BackoffCapMs
                              THEN MapSet(map, key, [count |-> 1, lastAttempt |-> t])
                              ELSE MapSet(map, key, [count |-> attempt.count + 1,
                                                     lastAttempt |-> t]),
                    allowed |-> TRUE, waitTime |-> 0]
              ELSE [map |-> map, allowed |-> FALSE,
                    waitTime |-> CeilDiv(waitTime - timeSinceLastAttempt, 1000)]

\* a reset that forgets the attempts of every key
MutResetLoginAttempts(map, ip, email) == EmptyMap

resetLoginAttempts(map, ip, email) == MapDelete(map, loginKey(ip, email))

----------------------------------------------------------------------------
(* Legacy token and session artifact *)

NoPrincipal == [userId |-> 0, email |-> ""]

\* a legacy token as the request carries it: absent, bad (garbage, wrongly
\* signed or expired), or correctly signed and unexpired
NoToken == [kind |-> "none", userId |-> 0, email |-> ""]
BadToken == [kind |-> "bad", userId |-> 0, email |-> ""]

generateToken(userId, email) == [kind |-> "ok", userId |-> userId, email |-> email]

\* verifyToken: the payload, or null for anything that is not a correctly
\* signed, unexpired token
verifyToken(token) ==
  IF token.kind = "ok" THEN [userId |-> token.userId, email |-> token.email]
  ELSE NoPrincipal

\* a session artifact as the request carries it
NoSession == [kind |-> "none", email |-> ""]
BadSession == [kind |-> "bad", email |-> ""]
SessionFor(email) == [kind |-> "ok", email |-> email]

\* next-auth getToken: the claims of a valid artifact, else null
getToken(session) == IF session.kind = "ok" THEN session ELSE NoSession

\* Authorization header: absent, another scheme, or "Bearer " + token
NoHeader == [scheme |-> "none", token |-> NoToken]
BasicHeader == [scheme |-> "Basic", token |-> NoToken]
Bearer(token) == [scheme |-> "Bearer", token |-> token]

NoCreds == [session |-> NoSession, authorization |-> NoHeader, cookie |-> NoToken]

getTokenFromRequest(creds) ==
  IF creds.authorization.scheme = "Bearer" THEN creds.authorization.token
  ELSE IF creds.cookie.kind # "none" THEN creds.cookie
  ELSE NoToken

\* legacy verification placed before the session artifact
MutAuthenticateRequest(creds, us) ==
  LET nextAuthToken == getToken(creds.session)
      dbUser == IF nextAuthToken.email # "" THEN findOne(us, nextAuthToken.email) ELSE 0
      token == getTokenFromRequest(creds)
      decoded == verifyToken(token)
  IN IF decoded # NoPrincipal
       THEN [user |-> decoded, error |-> "", via |-> "legacy"]
     ELSE IF dbUser # 0
       THEN [user |-> [userId |-> us[dbUser]._id, email |-> us[dbUser].email],
             error |-> "", via |-> "session"]
     ELSE IF token.kind = "none"
       THEN [user |-> NoPrincipal, error |-> "No authentication token provided",
             via |-> "legacy"]
     ELSE [user |-> NoPrincipal, error |-> "Invalid or expired token", via |-> "legacy"]

\* via: the step that returned, the session artifact's or the legacy token's
authenticateRequest(creds, us) ==
  LET nextAuthToken == getToken(creds.session)
      dbUser == IF nextAuthToken.email # "" THEN findOne(us, nextAuthToken.email) ELSE 0
      token == getTokenFromRequest(creds)
      decoded == verifyToken(token)
  IN IF dbUser # 0
       THEN [user |-> [userId |-> us[dbUser]._id, email |-> us[dbUser].email],
             error |-> "", via |-> "session"]
     ELSE IF token.kind = "none"
       THEN [user |-> NoPrincipal, error |-> "No authentication token provided",
             via |-> "legacy"]
     ELSE IF decoded = NoPrincipal
       THEN [user |-> NoPrincipal, error |-> "Invalid or expired token", via |-> "legacy"]
     ELSE [user |-> decoded, error |-> "", via |-> "legacy"]

\* the credentials a request may carry, given the accounts that exist: the
\* server signs legacy tokens for existing accounts only
TokenInputs(us) ==
  {NoToken, BadToken} \cup {generateToken(us[i]._id, us[i].email) : i \in Ids(us)}

\* a valid artifact may carry no email, or the email of no account
SessionEmails == {"", "a@x.io", "b@x.io", "c@x.io"}

SessionInputs == {NoSession, BadSession} \cup {SessionFor(e) : e \in SessionEmails}

HeaderInputs(us) ==
  {NoHeader, BasicHeader} \cup {Bearer(t) : t \in TokenInputs(us)}

CredInputs(us) ==
  [session : SessionInputs, authorization : HeaderInputs(us), cookie : TokenInputs(us)]

\* rateLimitResponse: the Retry-After header, in whole seconds; a response
\* without the header carries <<>>
rateLimitResponse(resetTime, t) == <<CeilDiv(resetTime - t, 1000)>>

----------------------------------------------------------------------------
(* Responses and suspended handlers *)

startsWith(s, prefix) ==
  Len(s) >= Len(prefix) /\ SubSeq(s, 1, Len(prefix)) = prefix

\* config.matcher: every path but those that start with one of these segments
matcher(pathname) ==
  ~\E x \in {"api/auth", "_next/static", "_next/image", "favicon.ico", "public"} :
     startsWith(pathname, "/" \o x)

\* the names of the headers the middleware sets on the response it passes on
securityHeaders ==
  {"X-DNS-Prefetch-Control", "Strict-Transport-Security", "X-XSS-Protection",
   "X-Frame-Options", "X-Content-Type-Options", "Referrer-Policy",
   "Permissions-Policy"}

\* the names of the headers addSecurityHeaders sets
addSecurityHeaders(headers) ==
  headers \cup {"X-Content-Type-Options", "X-Frame-Options", "X-XSS-Protection",
                "Referrer-Policy", "Content-Security-Policy", "Permissions-Policy"}

RegisterPath == "/api/auth/register"

\* the route of each handler
RouteOf(op) ==
  CASE op = "register" -> RegisterPath
    [] op = "login" -> "/api/auth/login"
    [] op = "me" -> "/api/auth/me"
    [] op \in {"tasks", "taskPost", "taskList", "taskGet", "taskPut", "taskPatch",
                "taskDelete"} -> "/api/tasks"
    [] op \in {"put", "patch"} -> "/api/user/profile"
    [] OTHER -> ""

\* the headers of NextResponse.json(...): those the middleware has set on
\* NextResponse.next(), when the route is one the middleware runs on
NextResponseJson(op) ==
  IF RouteOf(op) # "" /\ matcher(RouteOf(op)) THEN securityHeaders ELSE {}

NoResp ==
  [op |-> "", status |-> 0, msg |-> "", token |-> NoToken,
   principal |-> NoPrincipal, email |-> "", ip |-> "", waitTime |-> 0,
   creds |-> NoCreds, path |-> "", location |-> "", callbackUrl |-> "",
   via |-> "", provider |-> "", ran |-> FALSE,
   retryAfter |-> <<>>, headers |-> {}, pw |-> "", jwt |-> <<>>,
   taskId |-> 0, tasks |-> {}]

\* successResponse / errorResponse
Response(op, status, msg, email) ==
  [NoResp EXCEPT !.op = op, !.status = status, !.msg = msg, !.email = email,
                 !.headers = addSecurityHeaders(NextResponseJson(op))]

\* a response built by NextResponse.json or NextResponse.redirect alone
Bare(r) == [r EXCEPT !.headers = NextResponseJson(r.op)]

MsgInvalid == "Invalid email or password"
MsgLocked == "Your account has been temporarily locked"
MsgOAuth == "This account was created with an OAuth provider"
MsgRate == "Too many attempts"
MsgValidation == "Validation failed"
MsgWeak == "Password is not strong enough"
MsgConflict == "An account with this email already exists"
MsgPasswordSet == "Password set successfully"
MsgCreated == "Account created successfully"
MsgLogin == "Login successful"
MsgError == "An error occurred"

Idle ==
  [pc |-> "idle", ip |-> "", email |-> "", pw |-> "", snap |-> NullDoc,
   provider |-> "", name |-> <<>>, image |-> ""]

\* workers are interchangeable: a request takes the lowest free one
FreeProc(p) ==
  /\ inflight[p].pc = "idle"
  /\ \A q \in Procs : q < p => inflight[q].pc # "idle"

----------------------------------------------------------------------------
(* The clock *)

Instants ==
  {h * LOCK_TIME + s * BackoffBaseMs : h \in 0..MaxHours, s \in 0..MaxSecs}

Tick ==
  /\ \E t \in Instants : t > now /\ now' = t
  /\ UNCHANGED <<users, rateLimitStore, loginAttempts, inflight, resp,
                 loginLog, unswept, tasks>>

----------------------------------------------------------------------------
(* POST /api/auth/register *)

Register(xff, rawEmail, pw, confirm, first, last) ==
  LET ip == clientIp(xff)
      rl == checkRateLimit(rateLimitStore, ip, RegisterPath, rateLimitConfigs.auth, now)
      email == sanitizeEmail(rawEmail)
      firstName == sanitizeInput(first)
      lastName == sanitizeInput(last)
      existing == findOne(users, email)
      id == Len(users) + 1
      created == NewDoc(id, email, firstName, lastName, "", "credentials", "", FALSE)
  IN
  /\ rl.store[getRateLimitKey(ip, RegisterPath)].count <= MaxRLCount
  /\ existing = 0 => Len(users) < MaxUsers
  /\ rateLimitStore' = rl.store
  /\ UNCHANGED <<now, loginAttempts, inflight, loginLog, unswept, tasks>>
  /\ IF ~rl.allowed
       THEN /\ resp' = [Bare(Response("register", 429, MsgRate, ""))
                          EXCEPT !.retryAfter = rateLimitResponse(rl.resetTime, now),
                                 !.waitTime = rateLimitResponse(rl.resetTime, now)[1]]
            /\ UNCHANGED users
     ELSE IF ~registerSchemaOk(rawEmail, pw, confirm)
       THEN /\ resp' = Response("register", 400, MsgValidation, "")
            /\ UNCHANGED users
     ELSE IF ~validatePasswordStrength(pw).isValid
       THEN /\ resp' = Response("register", 400, MsgWeak, email)
            /\ UNCHANGED users
     ELSE IF existing # 0
       THEN LET doc == users[existing] IN
            IF doc.provider # "" /\ doc.provider # "credentials" /\ doc.password = NoPassword
              THEN LET edited == [doc EXCEPT !.firstName = firstName, !.lastName = lastName]
                   IN IF schemaValid(edited, pw)
                        THEN /\ users' = [users EXCEPT ![existing] = preSave(edited, pw)]
                             /\ resp' = [Response("register", 200, MsgPasswordSet, email)
                                           EXCEPT !.token = generateToken(doc._id, doc.email)]
                        ELSE /\ resp' = Response("register", 500, MsgError, email)
                             /\ UNCHANGED users
              ELSE /\ resp' = Response("register", 409, MsgConflict, email)
                   /\ UNCHANGED users
     ELSE IF schemaValid(created, pw)
       THEN /\ users' = Append(users, preSave(created, pw))
            /\ resp' = [Response("register", 201, MsgCreated, email)
                          EXCEPT !.token = generateToken(id, email)]
     ELSE /\ resp' = Response("register", 500, MsgError, email)
          /\ UNCHANGED users

----------------------------------------------------------------------------
\* the fields of the document read that the rest of the login handler uses
LoginFields(doc) ==
  [NullDoc EXCEPT !._id = doc._id, !.email = doc.email, !.password = doc.password,
                  !.loginAttempts = doc.loginAttempts, !.lockUntil = doc.lockUntil]

\* a login that takes no account for one of an identity provider
MutOauthWithoutPassword(user) == FALSE

\* the account was created by an identity provider and has no password
oauthWithoutPassword(user) ==
  user.password = NoPassword /\ user.provider # "" /\ user.provider # "credentials"

(* POST /api/auth/login: up to the await of comparePassword, and from it *)

LoginStart(p, xff, rawEmail, pw) ==
  LET ip == clientIp(xff)
      email == sanitizeEmail(rawEmail)
      rl == checkLoginRateLimit(loginAttempts, ip, email, now)
      found == findOne(users, email)
      user == DocOf(users, found)
  IN
  /\ FreeProc(p)
  /\ UNCHANGED <<now, users, rateLimitStore>>
  /\ IF ~loginSchemaOk(rawEmail, pw)
       THEN /\ resp' = [Response("login", 400, MsgValidation, "") EXCEPT !.pw = pw]
            /\ UNCHANGED <<loginAttempts, inflight>>
     ELSE /\ rl.map[loginKey(ip, email)].count <= MaxBackoff
          /\ loginAttempts' = rl.map
          /\ IF ~rl.allowed
               THEN /\ resp' = [Response("login", 429, MsgRate, email)
                                  EXCEPT !.waitTime = rl.waitTime, !.pw = pw]
                    /\ UNCHANGED inflight
             ELSE IF found = 0
               THEN /\ resp' = [Response("login", 401, MsgInvalid, email) EXCEPT !.pw = pw]
                    /\ UNCHANGED inflight
             ELSE IF oauthWithoutPassword(user)
               THEN /\ resp' = [Response("login", 401, MsgOAuth, email) EXCEPT !.pw = pw]
                    /\ UNCHANGED inflight
             ELSE IF isLocked(user, now)
               THEN /\ resp' = [Response("login", 401, MsgLocked, email) EXCEPT !.pw = pw]
                    /\ UNCHANGED inflight
             ELSE /\ inflight' = [inflight EXCEPT ![p] =
                                    [Idle EXCEPT !.pc = "login", !.ip = ip,
                                                 !.email = email, !.pw = pw,
                                                 !.snap = LoginFields(user)]]
                  /\ UNCHANGED resp

LoginFinish(p) ==
  LET req == inflight[p]
      this == req.snap
      id == this._id
  IN
  /\ req.pc = "login"
  /\ inflight' = [inflight EXCEPT ![p] = Idle]
  /\ UNCHANGED <<now, rateLimitStore>>
  /\ IF ~comparePassword(this, req.pw)
       THEN /\ users[id].loginAttempts < MaxAttempts
            /\ users' = [users EXCEPT ![id] = applyIncrement(@, incrementUpdate(this, now))]
            /\ resp' = [Response("login", 401, MsgInvalid, req.email)
                          EXCEPT !.pw = req.pw]
            /\ UNCHANGED loginAttempts
       ELSE /\ users' = [users EXCEPT ![id] = applyReset(@, now)]
            /\ loginAttempts' = resetLoginAttempts(loginAttempts, req.ip, req.email)
            /\ resp' = [Response("login", 200, MsgLogin, req.email)
                          EXCEPT !.token = generateToken(this._id, this.email),
                                 !.pw = req.pw]

----------------------------------------------------------------------------

Init ==
  /\ now = 0
  /\ users = <<>>
  /\ rateLimitStore = EmptyMap
  /\ loginAttempts = EmptyMap
  /\ inflight = [p \in Procs |-> Idle]
  /\ loginLog = EmptyMap
  /\ unswept = EmptyMap
  /\ tasks = <<>>
  /\ resp = NoResp

RegisterOver(XS, ES, PS, FS, LS) ==
  \E xff \in XS, e \in ES, pw \in PS, c \in PS, f \in FS, l \in LS :
    Register(xff, e, pw, c, f, l)

LoginStartOver(XS, ES, PS) ==
  \E p \in Procs, xff \in XS, e \in ES, pw \in PS : LoginStart(p, xff, e, pw)

LoginFinishStep ==
  /\ \E p \in Procs : LoginFinish(p)
  /\ UNCHANGED <<loginLog, unswept, tasks>>

----------------------------------------------------------------------------
(* The boundary middleware and the handlers that authenticate a request *)

protectedPaths == {"/dashboard"}
authPaths == {"/auth/login", "/auth/register"}

Pathnames ==
  {"/", "/dashboard", "/dashboard/profile", "/auth/login", "/auth/register",
   "/api/tasks", "/api/auth/me"}

Middleware(creds, pathname) ==
  LET token == getToken(creds.session)
      isAuthenticated == token # NoSession \/ creds.cookie.kind # "none"
      isProtectedPath == \E path \in protectedPaths : startsWith(pathname, path)
      isAuthPath == \E path \in authPaths : startsWith(pathname, path)
      base == [Response("middleware", 200, "", "") EXCEPT !.creds = creds,
                                                          !.path = pathname,
                                                          !.headers = securityHeaders]
  IN
  /\ matcher(pathname)
  /\ resp' = IF isProtectedPath /\ ~isAuthenticated
               THEN Bare([base EXCEPT !.status = 307, !.location = "/auth/login",
                                      !.callbackUrl = pathname])
             ELSE IF isAuthPath /\ isAuthenticated
               THEN Bare([base EXCEPT !.status = 307, !.location = "/dashboard"])
             ELSE base
  /\ UNCHANGED <<now, users, rateLimitStore, loginAttempts, inflight, loginLog,
                 unswept, tasks>>

\* what a handler answers when authenticateRequest gave no principal
AuthFailure(op, creds, auth, fallback) ==
  [Response(op, 401, IF auth.error # "" THEN auth.error ELSE fallback, "")
     EXCEPT !.creds = creds, !.via = auth.via]

AuthSuccess(op, creds, auth) ==
  [Response(op, 200, "", auth.user.email)
     EXCEPT !.creds = creds, !.via = auth.via, !.principal = auth.user, !.ran = TRUE]

\* withAuth around a handler that answers 200
WithAuth(creds) ==
  LET auth == authenticateRequest(creds, users) IN
  /\ resp' = IF auth.error # "" \/ auth.user = NoPrincipal
               THEN Bare(AuthFailure("withAuth", creds, auth, "Authentication required"))
               ELSE AuthSuccess("withAuth", creds, auth)
  /\ UNCHANGED <<now, users, rateLimitStore, loginAttempts, inflight, loginLog,
                 unswept, tasks>>

\* GET /api/auth/me
Me(creds) ==
  LET auth == authenticateRequest(creds, users) IN
  /\ resp' = Bare(IF auth.error # "" \/ auth.user = NoPrincipal
                    THEN AuthFailure("me", creds, auth, "Not authenticated")
                  ELSE IF findById(users, auth.user.userId) = 0
                    THEN [Response("me", 404, "User not found", "")
                            EXCEPT !.creds = creds, !.via = auth.via,
                                   !.principal = auth.user]
                  ELSE AuthSuccess("me", creds, auth))
  /\ UNCHANGED <<now, users, rateLimitStore, loginAttempts, inflight, loginLog,
                 unswept, tasks>>

\* GET /api/tasks, to the point where the tasks of the principal are read
TasksGet(xff, creds, queryOk) ==
  LET ip == clientIp(xff)
      auth == authenticateRequest(creds, users)
      rl == checkRateLimitByType(rateLimitStore, "api", ip, now)
  IN
  /\ UNCHANGED <<now, users, loginAttempts, inflight, loginLog, unswept, tasks>>
  /\ IF auth.error # "" \/ auth.user = NoPrincipal
       THEN /\ resp' = [AuthFailure("tasks", creds, auth, "Not authenticated")
                          EXCEPT !.ip = ip]
            /\ UNCHANGED rateLimitStore
       ELSE /\ rl.store["api:" \o ip].count <= MaxRLCount
            /\ rateLimitStore' = rl.store
            /\ resp' = IF ~rl.allowed
                         THEN [Response("tasks", 429, MsgRate, "")
                                 EXCEPT !.creds = creds, !.via = auth.via, !.ip = ip,
                                        !.principal = auth.user,
                                        !.waitTime = rl.waitTime]
                       ELSE IF ~queryOk
                         THEN [Response("tasks", 400, MsgValidation, "")
                                 EXCEPT !.creds = creds, !.via = auth.via, !.ip = ip,
                                        !.principal = auth.user]
                       ELSE [AuthSuccess("tasks", creds, auth) EXCEPT !.ip = ip]

\* two accounts, one registered with a password and one made by an OAuth
\* sign-in, and no request answered yet
AuthInit ==
  /\ now = 0
  /\ users = <<[NewDoc(1, "a@x.io", "Ann", "Lee", "", "credentials", "", FALSE)
                 EXCEPT !.password = bcryptHash("Passw0rd!")],
               NewDoc(2, "b@x.io", "Bob", "Ray", "pic", "google", "g-1", TRUE)>>
  /\ rateLimitStore =
       checkRateLimit(EmptyMap, "unknown", RegisterPath, rateLimitConfigs.auth, 0).store
  /\ loginAttempts = EmptyMap
  /\ inflight = [p \in Procs |-> Idle]
  /\ loginLog = EmptyMap
  /\ unswept = EmptyMap
  /\ tasks = <<>>
  /\ resp = NoResp

MiddlewareStep ==
  \E creds \in CredInputs(users), pathname \in Pathnames : Middleware(creds, pathname)

WithAuthStep == \E creds \in CredInputs(users) : WithAuth(creds)

MeStep == \E creds \in CredInputs(users) : Me(creds)

TasksGetStep ==
  \E xff \in {<<>>}, creds \in CredInputs(users), queryOk \in BOOLEAN :
    TasksGet(xff, creds, queryOk)

AuthNext ==
  \/ MiddlewareStep
  \/ WithAuthStep
  \/ MeStep
  \/ TasksGetStep

AuthSpec == AuthInit /\ [][AuthNext]_vars

----------------------------------------------------------------------------
(* OAuth sign-in (callbacks.signIn, then callbacks.jwt) and the profile     *)
(* handlers                                                                 *)

\* (user.name || 'User').split(' '): the first word, and the rest joined
firstNameOf(name) == IF name = <<>> THEN "User" ELSE Head(name)
RECURSIVE JoinWords(_)
JoinWords(ws) ==
  IF ws = <<>> THEN ""
  ELSE IF Len(ws) = 1 THEN ws[1]
  ELSE ws[1] \o " " \o JoinWords(Tail(ws))

lastNameOf(name) == IF name = <<>> THEN "" ELSE JoinWords(Tail(name))

\* an account made without its provider, which then takes the default
MutOauthDoc(id, email, name, image, provider, providerAccountId) ==
  NewDoc(id, email, firstNameOf(name), lastNameOf(name), image, "credentials", "", TRUE)

\* the document signIn creates for an identity that has no account
oauthDoc(id, email, name, image, provider, providerAccountId) ==
  NewDoc(id, email, firstNameOf(name), lastNameOf(name), image, provider,
         providerAccountId, TRUE)

\* a link that replaces the provider of an account that has another one
MutLinkProvider(existing, provider, providerAccountId, image) ==
  IF existing.provider # provider
    THEN [existing EXCEPT !.provider = provider, !.providerId = providerAccountId]
    ELSE existing

\* the update signIn makes to an account that exists
linkProvider(existing, provider, providerAccountId, image) ==
  IF existing.provider = ""
    THEN [existing EXCEPT !.provider = provider, !.providerId = providerAccountId,
                          !.avatar = IF @ = "" /\ image # "" THEN image ELSE @]
    ELSE existing

providerAccountIdOf(provider) == IF provider = "google" THEN "g-1" ELSE "h-1"

\* the fields of the document read that the rest of signIn uses
LinkFields(doc) ==
  [NullDoc EXCEPT !._id = doc._id, !.email = doc.email, !.provider = doc.provider,
                  !.providerId = doc.providerId, !.avatar = doc.avatar]

\* signIn up to the answer of findOne
SignInLookup(p, provider, email, name, image) ==
  /\ FreeProc(p)
  /\ inflight' = [inflight EXCEPT ![p] =
                    [Idle EXCEPT !.pc = "signIn", !.email = email,
                                 !.provider = provider, !.name = name, !.image = image,
                                 !.snap = LinkFields(DocOf(users, findOne(users, email)))]]
  /\ UNCHANGED <<now, users, rateLimitStore, loginAttempts, resp, loginLog,
                 unswept, tasks>>

\* signIn from the answer of findOne on, and the jwt callback of an accepted
\* sign-in, which reads the account's id by e-mail
SignInFinish(p) ==
  LET req == inflight[p]
      existingUser == req.snap
      id == Len(users) + 1
      doc == oauthDoc(id, toLowerCase(req.email), req.name, req.image, req.provider,
                      providerAccountIdOf(req.provider))
      linked == linkProvider(existingUser, req.provider,
                             providerAccountIdOf(req.provider), req.image)
      \* save() writes the paths signIn modified and validates the document
      saved == IF existingUser = NullDoc THEN NullDoc
               ELSE [users[existingUser._id] EXCEPT !.provider = linked.provider,
                                                    !.providerId = linked.providerId,
                                                    !.avatar = linked.avatar]
      accepted == IF existingUser = NullDoc
                    THEN schemaValid(doc, "") /\ uniqueOk(users, doc)
                    ELSE linked = existingUser \/ schemaValid(saved, "")
      after == IF existingUser = NullDoc
                 THEN IF accepted THEN Append(users, doc) ELSE users
               ELSE IF linked # existingUser /\ accepted
                 THEN [users EXCEPT ![existingUser._id] = saved]
               ELSE users
      dbUser == findOne(after, req.email)
      answer == [Response("signIn", IF accepted THEN 200 ELSE 403, "", req.email)
                   EXCEPT !.provider = req.provider]
  IN
  /\ req.pc = "signIn"
  /\ Len(after) <= MaxUsers
  /\ inflight' = [inflight EXCEPT ![p] = Idle]
  /\ users' = after
  /\ resp' = IF accepted /\ dbUser # 0
               THEN [answer EXCEPT !.principal = [userId |-> after[dbUser]._id,
                                                  email |-> after[dbUser].email]]
               ELSE answer
  /\ UNCHANGED <<now, rateLimitStore, loginAttempts, loginLog, unswept, tasks>>

\* hasSQLInjection or hasNoSQLInjection
hasInjection(text) == text = "x --"

MsgProfile == "Profile updated successfully"
MsgChanged == "Password changed successfully"
MsgCurrent == "Current password is incorrect"
MsgSame == "New password must be different from current password"
MsgInjection == "Invalid input detected"
MsgNotFound == "User not found"

\* updateProfileSchema.parse of the sanitized body: firstName is optional and
\* not empty when given; keys the schema does not name are dropped
updateProfileSchema(sanitizedBody) ==
  [ok |-> ~(sanitizedBody.hasFirstName /\ sanitizedBody.firstName = ""),
   data |-> [hasFirstName |-> sanitizedBody.hasFirstName,
             firstName |-> sanitizedBody.firstName]]

\* PUT /api/user/profile
ProfilePut(xff, creds, body) ==
  LET ip == clientIp(xff)
      auth == authenticateRequest(creds, users)
      rl == checkRateLimitByType(rateLimitStore, "api", ip, now)
      sanitizedBody == [body EXCEPT !.hasFirstName = body.firstName # "",
                                    !.firstName = sanitizeInput(body.firstName)]
      parsed == updateProfileSchema(sanitizedBody)
      id == findById(users, auth.user.userId)
  IN
  /\ UNCHANGED <<now, loginAttempts, inflight, loginLog, unswept, tasks>>
  /\ IF auth.error # "" \/ auth.user = NoPrincipal
       THEN /\ resp' = Response("put", 401, auth.error, "")
            /\ UNCHANGED <<users, rateLimitStore>>
       ELSE /\ rl.store["api:" \o ip].count <= MaxRLCount
            /\ rateLimitStore' = rl.store
            /\ IF ~rl.allowed
                 THEN /\ resp' = [Response("put", 429, MsgRate, auth.user.email)
                                    EXCEPT !.waitTime = rl.waitTime]
                      /\ UNCHANGED users
               ELSE IF sanitizedBody.hasFirstName /\ hasInjection(sanitizedBody.firstName)
                 THEN /\ resp' = Response("put", 400, MsgInjection, auth.user.email)
                      /\ UNCHANGED users
               ELSE IF ~parsed.ok
                 THEN /\ resp' = Response("put", 400, MsgValidation, auth.user.email)
                      /\ UNCHANGED users
               ELSE IF id = 0
                 THEN /\ resp' = Response("put", 404, MsgNotFound, auth.user.email)
                      /\ UNCHANGED users
               ELSE /\ users' = IF parsed.data.hasFirstName
                                  THEN [users EXCEPT ![id].firstName = parsed.data.firstName]
                                  ELSE users
                    /\ resp' = [Response("put", 200, MsgProfile, users[id].email)
                                  EXCEPT !.provider = users[id].provider]

\* PATCH /api/user/profile
ProfilePatch(xff, creds, currentPassword, newPassword, confirmNewPassword) ==
  LET ip == clientIp(xff)
      auth == authenticateRequest(creds, users)
      rl == checkRateLimitByType(rateLimitStore, "auth", ip, now)
      id == findById(users, auth.user.userId)
      user == DocOf(users, id)
  IN
  /\ UNCHANGED <<now, loginAttempts, inflight, loginLog, unswept, tasks>>
  /\ IF auth.error # "" \/ auth.user = NoPrincipal
       THEN /\ resp' = Response("patch", 401, auth.error, "")
            /\ UNCHANGED <<users, rateLimitStore>>
       ELSE /\ rl.store["auth:" \o ip].count <= MaxRLCount
            /\ rateLimitStore' = rl.store
            /\ IF ~rl.allowed
                 THEN /\ resp' = [Response("patch", 429, MsgRate, auth.user.email)
                                    EXCEPT !.waitTime = rl.waitTime]
                      /\ UNCHANGED users
               ELSE IF ~changePasswordSchemaOk(newPassword, confirmNewPassword)
                 THEN /\ resp' = Response("patch", 400, MsgValidation, auth.user.email)
                      /\ UNCHANGED users
               ELSE IF ~validatePasswordStrength(newPassword).isValid
                 THEN /\ resp' = Response("patch", 400, MsgWeak, auth.user.email)
                      /\ UNCHANGED users
               ELSE IF id = 0
                 THEN /\ resp' = Response("patch", 404, MsgNotFound, auth.user.email)
                      /\ UNCHANGED users
               ELSE IF user.provider # "" /\ user.provider # "credentials"
                       /\ user.password = NoPassword
                 THEN IF schemaValid(user, newPassword)
                        THEN /\ users' = [users EXCEPT ![id] = preSave(@, newPassword)]
                             /\ resp' = Response("patch", 200, MsgPasswordSet, user.email)
                        ELSE /\ resp' = Response("patch", 500, MsgError, user.email)
                             /\ UNCHANGED users
               ELSE IF ~comparePassword(user, currentPassword)
                 THEN /\ resp' = Response("patch", 400, MsgCurrent, user.email)
                      /\ UNCHANGED users
               ELSE IF comparePassword(user, newPassword)
                 THEN /\ resp' = Response("patch", 400, MsgSame, user.email)
                      /\ UNCHANGED users
               ELSE IF schemaValid(user, newPassword)
                 THEN /\ users' = [users EXCEPT ![id] = preSave(@, newPassword)]
                      /\ resp' = Response("patch", 200, MsgChanged, user.email)
               ELSE /\ resp' = Response("patch", 500, MsgError, user.email)
                    /\ UNCHANGED users

\* the credentials the clients of the accounts hold: the session artifact of
\* an OAuth sign-in or the legacy token of a login, and none
LinkCreds ==
  {NoCreds}
    \cup {[NoCreds EXCEPT !.session = SessionFor(users[i].email)] : i \in Ids(users)}
    \cup {[NoCreds EXCEPT !.authorization = Bearer(generateToken(users[i]._id, users[i].email))] :
            i \in Ids(users)}

LinkEmails == {"a@x.io"}

LinkRegister ==
  RegisterOver({<<>>}, {"a@x.io"}, {"Passw0rd!", "Abc12!x"}, FirstNameInputs, {"Lee"})

SignInLookupStep ==
  \E p \in Procs, provider \in OAuthProviders, email \in LinkEmails, name \in OAuthNames :
    SignInLookup(p, provider, email, name, "pic")

SignInFinishStep == \E p \in Procs : SignInFinish(p)

ProfilePutStep ==
  \E creds \in LinkCreds, first \in {"", "Ann", "<b></b>", "x --"},
     provider \in {"", "github"} :
    ProfilePut(<<>>, creds, [hasFirstName |-> TRUE, firstName |-> first,
                             provider |-> provider])

ProfilePatchStep ==
  \E creds \in LinkCreds, current \in {"", "Passw0rd!"},
     new \in {"Wr0ng#Pass1", "Abc12!x"} :
    ProfilePatch(<<>>, creds, current, new, new)

LinkNext ==
  \/ LinkRegister
  \/ SignInLookupStep
  \/ SignInFinishStep
  \/ ProfilePutStep
  \/ ProfilePatchStep

LinkSpec == Init /\ [][LinkNext]_vars

----------------------------------------------------------------------------
(* The login backoff on its own: checkLoginRateLimit and resetLoginAttempts *)
(* called for two keys, on a clock that stops just before and at the ends   *)
(* of the waits 1 s, 2 s, 4 s, ... and of the 30 minute cap                 *)

BackoffInstants ==
  {(Pow2(k) - 1) * BackoffBaseMs : k \in 0..MaxPow}
    \cup {(Pow2(k) - 2) * BackoffBaseMs : k \in 1..MaxPow}
    \cup {(Pow2(MaxPow) - 1) * BackoffBaseMs + BackoffCapMs - d : d \in {0, BackoffBaseMs}}

BackoffIps == {"unknown", "10.0.0.1"}

BackoffTick ==
  /\ \E t \in BackoffInstants : t > now /\ now' = t
  /\ UNCHANGED <<users, rateLimitStore, loginAttempts, inflight, resp,
                 loginLog, unswept, tasks>>

CheckLogin(ip, email) ==
  LET rl == checkLoginRateLimit(loginAttempts, ip, email, now) IN
  /\ loginAttempts' = rl.map
  /\ resp' = [Response("checkLogin", IF rl.allowed THEN 200 ELSE 429, "", email)
                EXCEPT !.ip = ip, !.waitTime = rl.waitTime]
  /\ UNCHANGED <<now, users, rateLimitStore, inflight, loginLog, unswept, tasks>>

ResetLogin(ip, email) ==
  /\ loginAttempts' = resetLoginAttempts(loginAttempts, ip, email)
  /\ resp' = [Response("resetLogin", 200, "", email) EXCEPT !.ip = ip]
  /\ UNCHANGED <<now, users, rateLimitStore, inflight, loginLog, unswept, tasks>>

CheckLoginStep == \E ip \in BackoffIps : CheckLogin(ip, "a@x.io")

ResetLoginStep == \E ip \in BackoffIps : ResetLogin(ip, "a@x.io")

BackoffNext ==
  \/ BackoffTick
  \/ CheckLoginStep
  \/ ResetLoginStep

BackoffSpec == Init /\ [][BackoffNext]_vars

----------------------------------------------------------------------------
(* Account lockout: one account, registered at time 0, and the logins to it *)

LockInit ==
  /\ now = 0
  /\ users = <<[NewDoc(1, "a@x.io", "Ann", "Lee", "", "credentials", "", FALSE)
                 EXCEPT !.password = bcryptHash("Passw0rd!")]>>
  /\ rateLimitStore =
       checkRateLimit(EmptyMap, "unknown", RegisterPath, rateLimitConfigs.auth, 0).store
  /\ loginAttempts = EmptyMap
  /\ inflight = [p \in Procs |-> Idle]
  /\ loginLog = EmptyMap
  /\ unswept = EmptyMap
  /\ tasks = <<>>
  /\ resp = [Response("register", 201, MsgCreated, "a@x.io")
               EXCEPT !.token = generateToken(1, "a@x.io")]

LockLoginStart ==
  /\ LoginStartOver(Xffs, {"A@x.io"}, {"Passw0rd!", "Wr0ng#Pass1"})
  /\ UNCHANGED <<loginLog, unswept, tasks>>

LockNext ==
  \/ Tick
  \/ LockLoginStart
  \/ LoginFinishStep

LockSpec == LockInit /\ [][LockNext]_vars

----------------------------------------------------------------------------
(* Claims on the account lockout *)

\* the account of LockSpec
Acct == users[1]

\* a step in which a login request was answered without being suspended
\* and without being refused for its shape or by the backoff
LoginAnsweredAtOnce ==
  /\ inflight' = inflight
  /\ loginAttempts' # loginAttempts
  /\ resp'.op = "login"
  /\ resp'.status \notin {400, 429}

\* C1: the 5th consecutive failed password verification locks the account
\* for LOCK_TIME and is itself answered 401 'Invalid email or password';
\* while the lock lasts neither loginAttempts nor lockUntil changes, and a
\* login attempt made during it is answered 401 'account locked'.
C1_Lockout ==
  [][ /\ (Acct.loginAttempts = MAX_LOGIN_ATTEMPTS - 1
            /\ Acct'.loginAttempts = MAX_LOGIN_ATTEMPTS)
         => /\ Acct'.lockUntil = now + LOCK_TIME
            /\ resp'.status = 401 /\ resp'.msg = MsgInvalid
      /\ (isLocked(Acct, now) /\ isLocked(Acct, now'))
         => /\ Acct'.lockUntil = Acct.lockUntil
            /\ Acct'.loginAttempts = Acct.loginAttempts
      /\ (isLocked(Acct, now) /\ LoginAnsweredAtOnce)
         => resp'.status = 401 /\ resp'.msg = MsgLocked
    ]_vars

----------------------------------------------------------------------------
(* Claims on the login backoff *)

BackoffKeys == {loginKey(ip, "a@x.io") : ip \in BackoffIps}

\* the step admits the n-th attempt of the window of key k, n = count + 1
AdmitsNext(k) ==
  /\ k \in DOMAIN loginAttempts
  /\ k \in DOMAIN loginAttempts'
  /\ loginAttempts'[k].count = loginAttempts[k].count + 1

\* the step answers a checkLoginRateLimit for a key that has no entry
ChecksFresh(k) ==
  /\ k \notin DOMAIN loginAttempts
  /\ resp'.op = "checkLogin"
  /\ loginKey(resp'.ip, resp'.email) = k
  /\ loginAttempts' # loginAttempts \/ resp' # resp

\* the step is a resetLoginAttempts of key k
Resets(k) ==
  /\ resp'.op = "resetLogin"
  /\ loginKey(resp'.ip, resp'.email) = k
  /\ loginAttempts' # loginAttempts \/ resp' # resp

\* C2 as claimed: the n-th admitted attempt of a key comes no earlier than
\* min(2^(n-1), 1800) seconds after the (n-1)-th, and after a reset the next
\* attempt is admitted with waitTime 0.
C2_BackoffClaimed ==
  [][ \A k \in BackoffKeys :
        /\ AdmitsNext(k)
             => now - loginAttempts[k].lastAttempt
                  >= Min(Pow2(loginAttempts[k].count) * 1000, 1800 * 1000)
        /\ Resets(k) => k \notin DOMAIN loginAttempts'
        /\ ChecksFresh(k) => resp'.status = 200 /\ resp'.waitTime = 0
    ]_vars

\* C2 amended: the n-th admitted attempt of a key (n >= 2) comes no earlier
\* than min(2^(n-2), 1800) seconds after the (n-1)-th, and after a reset the
\* next attempt is admitted with waitTime 0.
C2_Backoff ==
  [][ \A k \in BackoffKeys :
        /\ AdmitsNext(k)
             => now - loginAttempts[k].lastAttempt
                  >= Min(Pow2(loginAttempts[k].count - 1) * 1000, 1800 * 1000)
        /\ Resets(k) => k \notin DOMAIN loginAttempts'
        /\ ChecksFresh(k) => resp'.status = 200 /\ resp'.waitTime = 0
    ]_vars

\* the third attempt of a window has been admitted
C2_Witness ==
  /\ resp.op = "checkLogin" /\ resp.status = 200
  /\ loginKey(resp.ip, resp.email) \in DOMAIN loginAttempts
  /\ loginAttempts[loginKey(resp.ip, resp.email)].count >= 3
  /\ loginAttempts[loginKey(resp.ip, resp.email)].lastAttempt = now

----------------------------------------------------------------------------
(* Claims on the authentication of a request *)

\* the operations that call authenticateRequest
AuthOps == {"withAuth", "me", "tasks"}

\* the session artifact of the answered request is valid and names account i
SessionAccount(r) ==
  IF r.creds.session.kind = "ok" /\ r.creds.session.email # ""
    THEN findOne(users, r.creds.session.email)
    ELSE 0

\* C3: the middleware lets a path under /dashboard through only if a
\* principal resolves for the request, else redirects to /auth/login with
\* callbackUrl the requested path; it redirects /auth/login and
\* /auth/register to /dashboard only if a principal resolves; its decision
\* agrees with authenticateRequest on every request.
C3_MiddlewareAgrees ==
  resp.op = "middleware" =>
    LET resolves == authenticateRequest(resp.creds, users).user # NoPrincipal
        protected == startsWith(resp.path, "/dashboard")
        entry == startsWith(resp.path, "/auth/login")
                   \/ startsWith(resp.path, "/auth/register")
        toLogin == /\ resp.status = 307 /\ resp.location = "/auth/login"
                   /\ resp.callbackUrl = resp.path
        toDashboard == resp.status = 307 /\ resp.location = "/dashboard"
    IN /\ protected => IF resolves THEN resp.status = 200 ELSE toLogin
       /\ entry => (toDashboard <=> resolves)

C5_UnknownEmailFails ==
  ( /\ resp.op \in AuthOps
    /\ resp.creds.session.kind = "ok"
    /\ resp.creds.session.email # ""
    /\ SessionAccount(resp) = 0 )
  => /\ resp.principal = NoPrincipal
     /\ resp.status = 401
     /\ resp.msg # ""

\* authentication of the request answered by r failed
AuthFailed(r) ==
  r.op \in AuthOps /\ authenticateRequest(r.creds, users).user = NoPrincipal

\* C6: when authentication fails the handler is not run and the answer is
\* 401 with a generic message: two failed requests to the same operation get
\* the same body, whether the token was missing or invalid.
C6_GenericUnauthorized ==
  [][ /\ AuthFailed(resp') => resp'.status = 401 /\ ~resp'.ran
      /\ (AuthFailed(resp) /\ AuthFailed(resp') /\ resp'.op = resp.op)
           => resp'.msg = resp.msg
    ]_vars

----------------------------------------------------------------------------
(* Claims on account linking *)

\* worker p ends an OAuth sign-in in this step
SignInEnds(p) == inflight[p].pc = "signIn" /\ inflight'[p].pc = "idle"

\* the accounts of us that have this e-mail address
AccountsOf(us, email) == {i \in Ids(us) : us[i].email = toLowerCase(email)}

\* C7: OAuth sign-ins for one identity, started with no account for its
\* e-mail and run one after the other or interleaved, leave exactly one
\* account for the e-mail, and each is accepted and resolves to its userId.
C7_IdempotentLinking ==
  [][ \A p \in Procs :
        SignInEnds(p)
          => /\ resp'.status = 200
             /\ Cardinality(AccountsOf(users', inflight[p].email)) = 1
             /\ resp'.principal.userId = findOne(users', inflight[p].email)
    ]_vars

\* the step answers a registration that passed the rate limit and the
\* validation, for an e-mail that has an account
RegistersExisting ==
  /\ resp'.op = "register"
  /\ rateLimitStore' # rateLimitStore
  /\ resp'.status \notin {400, 429}
  /\ findOne(users, resp'.email) # 0

\* C8: a registration for an e-mail that has an account either sets the
\* password of an account with a non-credentials provider and no password
\* (answer: success, password set, token issued), or, for an account that has
\* a password, answers 409 with no token and leaves the account unchanged.
C8_RegisterExisting ==
  [][ RegistersExisting =>
        LET i == findOne(users, resp'.email) IN
        IF users[i].provider # "credentials" /\ users[i].password = NoPassword
          THEN /\ resp'.status = 200 /\ resp'.msg = MsgPasswordSet
               /\ resp'.token = generateToken(users[i]._id, users[i].email)
               /\ users'[i].password # NoPassword
          ELSE /\ resp'.status = 409 /\ resp'.token = NoToken
               /\ users'[i] = users[i]
    ]_vars

\* C9: every account has a password hash or a provider other than
\* 'credentials'.
C9_PasswordOrProvider ==
  \A i \in Ids(users) :
    users[i].password # NoPassword \/ users[i].provider # "credentials"

\* an account made by an OAuth sign-in has set a password
C9_Witness ==
  /\ resp.op = "patch" /\ resp.status = 200 /\ resp.msg = MsgPasswordSet
  /\ \E i \in Ids(users) :
       users[i].provider = "google" /\ users[i].password # NoPassword

\* C10: no step changes the provider or the providerId of an account, and an
\* OAuth sign-in for an account that exists, through whatever provider, is
\* accepted and resolves to that account.
C10_ProviderStable ==
  [][ /\ \A i \in Ids(users) :
           /\ users'[i].provider = users[i].provider
           /\ users'[i].providerId = users[i].providerId
      /\ \A p \in Procs :
           (SignInEnds(p) /\ inflight[p].snap # NullDoc)
             => /\ resp'.status = 200
                /\ resp'.principal.userId = inflight[p].snap._id
    ]_vars

\* a sign-in through another provider than the account's was accepted
C10_Witness ==
  /\ resp.op = "signIn" /\ resp.status = 200
  /\ resp.principal.userId \in Ids(users)
  /\ users[resp.principal.userId].provider \notin {"", resp.provider}
  /\ users[resp.principal.userId].provider # "credentials"

----------------------------------------------------------------------------
(* Claims on the counting of failed logins *)

\* the step ends a login request whose password did not verify
FailedLoginEnds ==
  /\ \E p \in Procs : inflight[p].pc = "login" /\ inflight'[p].pc = "idle"
  /\ resp'.op = "login" /\ resp'.status = 401

\* the stored account carries a lock that has expired
ExpiredLock(doc, t) == doc.lockUntil # NoDate /\ doc.lockUntil < t

\* C11: every failed login that passed the lock check is counted, whatever
\* the interleaving: it raises the stored loginAttempts by exactly one, or,
\* as the first failure on an account that carries an expired lock, restarts
\* the count at 1.
C11_FailuresCounted ==
  [][ FailedLoginEnds =>
        \/ Acct'.loginAttempts = Acct.loginAttempts + 1
        \/ ExpiredLock(Acct, now) /\ Acct'.loginAttempts = 1
    ]_vars

----------------------------------------------------------------------------
(* Bursts of logins: one account, and the requests each address sends *)

\* the request that the claimed limit of the login endpoint refuses
BurstLen == AuthMaxRequests + 1

Logged(log, ip, t) ==
  IF ip \in DOMAIN log /\ t - log[ip].since < AuthWindowMs
    THEN MapSet(log, ip, [count |-> log[ip].count + 1, since |-> log[ip].since])
    ELSE MapSet(log, ip, [count |-> 1, since |-> t])

BurstLoginStart ==
  \E p \in Procs, xff \in Xffs, e \in {"a@x.io", "b@x.io"} :
    /\ LoginStart(p, xff, e, "Passw0rd!")
    /\ loginLog' = Logged(loginLog, clientIp(xff), now)
    /\ loginLog'[clientIp(xff)].count <= BurstLen
    /\ UNCHANGED <<unswept, tasks>>

\* the clock of a burst stays within the window of its first request
BurstTick ==
  /\ now < MaxSecs * 1000
  /\ now' = now + 1000
  /\ UNCHANGED <<users, rateLimitStore, loginAttempts, inflight, resp,
                 loginLog, unswept, tasks>>

BurstNext ==
  \/ BurstTick
  \/ BurstLoginStart
  \/ LoginFinishStep

BurstSpec == LockInit /\ [][BurstNext]_vars

\* a step in which the login endpoint received a request from the address
LoginReceived(ip) ==
  /\ ip \in DOMAIN loginLog'
  /\ ip \in DOMAIN loginLog => loginLog'[ip] # loginLog[ip]

\* a step in which the request received was answered 429
RejectedNow == inflight' = inflight /\ resp'.op = "login" /\ resp'.status = 429

\* another address has used up its window, which is still running
OtherExhausted(ip) ==
  \E o \in DOMAIN loginLog :
    /\ o # ip
    /\ loginLog[o].count >= BurstLen
    /\ now - loginLog[o].since < AuthWindowMs

\* C12: the 11th login request of one address within 15 minutes is answered
\* 429 with a positive Retry-After, and the first request of another address
\* in the same window is not rejected.
C12_LoginBurst ==
  [][ \A ip \in {clientIp(xff) : xff \in Xffs} :
        LoginReceived(ip) =>
          /\ loginLog'[ip].count = BurstLen =>
                /\ RejectedNow
                /\ resp'.retryAfter # <<>>
                /\ resp'.retryAfter[1] > 0
          /\ loginLog'[ip].count = 1 /\ OtherExhausted(ip) => ~RejectedNow
    ]_vars

\* C13: every response with status 429 carries a Retry-After header whose
\* value is the remaining wait in whole seconds.
C13_RetryAfter ==
  resp.status = 429 /\ resp.op # "checkLogin" => resp.retryAfter = <<resp.waitTime>>

----------------------------------------------------------------------------
(* The generic limiter, called directly *)

LimiterInstants ==
  {w * AuthWindowMs + s * 1000 + e : w \in 0..MaxWindows, s \in 0..MaxSecs, e \in {0, 1}}

LimiterTick ==
  /\ \E t \in LimiterInstants : t > now /\ now' = t
  /\ UNCHANGED <<users, rateLimitStore, loginAttempts, inflight, resp,
                 loginLog, unswept, tasks>>

LimiterAnswer(op, ip, rl) ==
  [Response(op, IF rl.allowed THEN 200 ELSE 429, "", "")
     EXCEPT !.ip = ip, !.waitTime = rl.waitTime]

CheckRateLimit(ip, path) ==
  LET rl == checkRateLimit(rateLimitStore, ip, path, rateLimitConfigs.auth, now) IN
  /\ rl.store[getRateLimitKey(ip, path)].count <= MaxWindowCount
  /\ rateLimitStore' = rl.store
  /\ resp' = LimiterAnswer("checkRateLimit", ip, rl)
  /\ UNCHANGED <<now, users, loginAttempts, inflight, loginLog, tasks>>

CheckRateLimitByType(type, ip) ==
  LET rl == checkRateLimitByType(rateLimitStore, type, ip, now) IN
  /\ rl.store[type \o ":" \o ip].count <= MaxWindowCount
  /\ rateLimitStore' = rl.store
  /\ resp' = LimiterAnswer("checkRateLimitByType", ip, rl)
  /\ UNCHANGED <<now, users, loginAttempts, inflight, loginLog, tasks>>

CheckRateLimitStep ==
  /\ CheckRateLimit("unknown", RegisterPath)
  /\ UNCHANGED unswept

CheckRateLimitByTypeStep ==
  /\ CheckRateLimitByType("auth", "unknown")
  /\ UNCHANGED unswept

LimiterNext ==
  \/ LimiterTick
  \/ CheckRateLimitStep
  \/ CheckRateLimitByTypeStep

LimiterSpec == Init /\ [][LimiterNext]_vars

LimiterKeys == {getRateLimitKey("unknown", RegisterPath), "auth:unknown"}

\* a step in which the limiter was called under the key
Called(k) ==
  /\ k \in DOMAIN rateLimitStore'
  /\ k \in DOMAIN rateLimitStore => rateLimitStore'[k] # rateLimitStore[k]

\* the key has a window that has not expired
InWindow(k) == k \in DOMAIN rateLimitStore /\ ~(rateLimitStore[k].resetTime < now)

\* C14: the generic limiter is a fixed window per key: the count of a window
\* is the number of requests received in it and a request is allowed exactly
\* when its count is at most maxRequests; no request inside a window moves
\* resetTime; the first request after expiry is allowed and starts a window
\* with count 1; a call under one key leaves every other key as it was.
C14_FixedWindow ==
  [][ \A k \in LimiterKeys :
        Called(k) =>
          /\ \A o \in DOMAIN rateLimitStore' \ {k} :
                o \in DOMAIN rateLimitStore /\ rateLimitStore'[o] = rateLimitStore[o]
          /\ IF InWindow(k)
               THEN /\ rateLimitStore'[k].resetTime = rateLimitStore[k].resetTime
                    /\ rateLimitStore'[k].count = rateLimitStore[k].count + 1
                    /\ resp'.status = 200 <=> rateLimitStore'[k].count <= AuthMaxRequests
                    /\ resp'.status \in {200, 429}
               ELSE /\ rateLimitStore'[k] = [count |-> 1, resetTime |-> now + AuthWindowMs]
                    /\ resp'.status = 200
    ]_vars

\* a request was refused under one key while the other key is in its first
\* request of a window that began later
C14_Witness ==
  /\ resp.status = 429
  /\ \E k \in DOMAIN rateLimitStore, o \in DOMAIN rateLimitStore :
       /\ rateLimitStore[k].count > AuthMaxRequests
       /\ rateLimitStore[o].count = 1
       /\ rateLimitStore[o].resetTime > rateLimitStore[k].resetTime

----------------------------------------------------------------------------
(* Claims on the response headers *)

\* the header set every response is to carry
SecurityHeaderSet ==
  {"Strict-Transport-Security", "X-Content-Type-Options", "X-Frame-Options",
   "X-XSS-Protection", "Permissions-Policy", "Referrer-Policy"}

\* the responses of the middleware and of the route handlers
HttpOps == {"middleware", "login", "register", "me", "tasks", "put", "patch"}

\* C15: every response of the middleware (pass-through and redirects) and of
\* every API handler carries the fixed security header set.
C15_SecurityHeaders ==
  resp.op \in HttpOps => SecurityHeaderSet \subseteq resp.headers

----------------------------------------------------------------------------
(* An identity provider's account and the password logins to it *)

OAuthSignInStep ==
  \E p \in Procs :
    SignInLookup(p, "google", "a@x.io", <<"Bob", "Ray">>, "pic")

OAuthLoginStart ==
  /\ LoginStartOver({<<>>}, {"a@x.io"}, {"Passw0rd!", "Wr0ng#Pass1", "weak"})
  /\ UNCHANGED <<loginLog, unswept, tasks>>

OAuthPatch ==
  \E creds \in LinkCreds, new \in {"Passw0rd!", "Abc12!x"} :
    ProfilePatch(<<>>, creds, "", new, new)

OAuthRegister == RegisterOver({<<>>}, {"a@x.io"}, {"Passw0rd!"}, {"Ann"}, {"Lee"})

OAuthNext ==
  \/ BurstTick
  \/ OAuthSignInStep
  \/ SignInFinishStep
  \/ OAuthLoginStart
  \/ LoginFinishStep
  \/ OAuthPatch
  \/ OAuthRegister

OAuthSpec == Init /\ [][OAuthNext]_vars

\* the account of OAuthSpec, once it exists
HasOAuthOnly ==
  Len(users) >= 1 /\ users[1].password = NoPassword /\ users[1].provider \in OAuthProviders

\* a step in which the login endpoint took a request and answered it at once
LoginAtOnce ==
  /\ inflight' = inflight /\ users' = users /\ now' = now
  /\ rateLimitStore' = rateLimitStore
  /\ resp'.op = "login"
  /\ resp' # resp \/ loginAttempts' # loginAttempts

\* a step in which the login endpoint took a request and went on to verify
\* the password
LoginSuspended ==
  \E p \in Procs : inflight[p].pc = "idle" /\ inflight'[p].pc = "login"

OAuthAnswer == inflight' = inflight /\ resp'.status = 401 /\ resp'.msg = MsgOAuth

\* C16 as claimed: a password login to an account that an identity provider
\* created and that has no password is answered 401 with the message that
\* names the provider, whatever the password.
C16_OAuthLoginClaimed ==
  [][ HasOAuthOnly /\ (LoginAtOnce \/ LoginSuspended) => OAuthAnswer ]_vars

\* C16: a password login to an account that an identity provider created and
\* that has no password, with a body that passes the login schema and at a
\* time the backoff admits it, is answered 401 with the message that names
\* the provider, whatever the password, and leaves the account as it was.
C16_OAuthLogin ==
  [][ /\ HasOAuthOnly
      /\ LoginAtOnce \/ LoginSuspended
      /\ resp'.op = "login" => resp'.status \notin {400, 429}
      => OAuthAnswer /\ users' = users
    ]_vars

C16_Witness ==
  /\ HasOAuthOnly
  /\ resp.op = "login" /\ resp.status = 401 /\ resp.msg = MsgOAuth
  /\ loginAttempts # EmptyMap

\* a step in which the account, so far without a password, had one set
PasswordSet ==
  /\ HasOAuthOnly
  /\ users'[1].password # NoPassword

\* the account has the password, hashed once
Holds(doc, pw) == doc.password = bcryptHash(pw)

\* a step in which a login with the password of the account, set earlier,
\* was refused at once or failed
RightLoginRefused ==
  /\ Len(users) >= 1 /\ users[1].provider \in OAuthProviders
  /\ \/ LoginAtOnce /\ Holds(users[1], resp'.pw)
     \/ \E p \in Procs :
          /\ inflight[p].pc = "login" /\ inflight'[p].pc = "idle"
          /\ Holds(users[1], inflight[p].pw)
          /\ resp'.status # 200

\* the stored password is one hash of a password, set with the answer
\* 'Password set successfully', kept by every step that sets none, and the
\* provider stays
HashedOnce ==
  /\ PasswordSet =>
       /\ \E pw \in Passwords : Holds(users'[1], pw)
       /\ resp'.status = 200 /\ resp'.msg = MsgPasswordSet
       /\ resp'.op \in {"patch", "register"}
  /\ Len(users) >= 1 =>
       /\ users'[1].provider = users[1].provider
       /\ users[1].password # NoPassword => users'[1].password = users[1].password

RightLoginEnds ==
  \E p \in Procs :
    /\ inflight[p].pc = "login" /\ inflight'[p].pc = "idle"
    /\ Holds(users[1], inflight[p].pw)

----------------------------------------------------------------------------
(* The jwt callback: a verification pass of the session artifact *)

\* the claims of a session artifact
Claims(email, id, firstName, lastName, picture) ==
  [email |-> email, id |-> id, firstName |-> firstName, lastName |-> lastName,
   picture |-> picture]

\* the user of a pass that follows a sign-in, and its absence
NoJwtUser == [id |-> 0, firstName |-> "", lastName |-> ""]

\* the session of useSession().update(...), and its absence
NoUpdate == [firstName |-> "", lastName |-> "", image |-> "", given |-> FALSE]

\* callbacks.jwt; reachable is whether connectDB and findOne answer
jwt(token, user, trigger, session, us, reachable) ==
  LET signed == IF user # NoJwtUser
                  THEN [token EXCEPT !.id = user.id, !.firstName = user.firstName,
                                     !.lastName = user.lastName]
                  ELSE token
      updated == IF trigger = "update" /\ session.given
                   THEN [signed EXCEPT !.firstName = session.firstName,
                                       !.lastName = session.lastName,
                                       !.picture = session.image]
                   ELSE signed
      found == findOne(us, updated.email)
      dbUser == DocOf(us, found)
  IN IF updated.email # "" /\ reachable /\ found # 0
       THEN [updated EXCEPT !.id = dbUser._id, !.firstName = dbUser.firstName,
                            !.lastName = dbUser.lastName,
                            !.picture = IF dbUser.avatar # "" THEN dbUser.avatar ELSE @]
       ELSE updated

JwtPass(token, user, trigger, session, reachable) ==
  /\ resp' = [NoResp
                EXCEPT !.op = "jwt", !.email = token.email,
                       !.jwt = [token |-> token, user |-> user, trigger |-> trigger,
                                session |-> session,
                                reachable |-> reachable,
                                claims |-> jwt(token, user, trigger, session, users,
                                               reachable)]]
  /\ UNCHANGED <<now, users, rateLimitStore, loginAttempts, inflight, loginLog,
                 unswept, tasks>>

JwtTokens ==
  {Claims(e, i, "Old", "Name", pic) :
     e \in {"a@x.io", "b@x.io", "c@x.io"}, i \in {0, 1}, pic \in {"", "old.png"}}

JwtPassStep ==
  \E token \in JwtTokens, trigger \in {"", "update"}, reachable \in BOOLEAN,
     user \in {NoJwtUser, [id |-> 1, firstName |-> "Ann", lastName |-> "Lee"]},
     session \in {NoUpdate, [firstName |-> "Eve", lastName |-> "Hax",
                             image |-> "evil.png", given |-> TRUE]} :
    JwtPass(token, user, trigger, session, reachable)

JwtProfilePut ==
  \E i \in Ids(users), first \in {"Zed", "Amy"} :
    ProfilePut(<<>>, [NoCreds EXCEPT !.session = SessionFor(users[i].email)],
               [hasFirstName |-> TRUE, firstName |-> first, provider |-> ""])

JwtNext ==
  \/ JwtPassStep
  \/ JwtProfilePut

JwtSpec == AuthInit /\ [][JwtNext]_vars

\* the account the artifact of the last pass names, or 0
JwtAccount == findOne(users', resp'.jwt.token.email)

\* C18: after a pass of the jwt callback in which the store answers and the
\* account exists, the artifact's userId, firstName, lastName and avatar are
\* those of the account in the store, whatever the previous claims and the
\* client's session update were; if the lookup fails the claims are left as
\* they were.
C18_ClaimsFromStore ==
  [][ resp'.op = "jwt" =>
        LET pass == resp'.jwt IN
        /\ pass.reachable /\ JwtAccount # 0 =>
             /\ pass.claims.id = users'[JwtAccount]._id
             /\ pass.claims.firstName = users'[JwtAccount].firstName
             /\ pass.claims.lastName = users'[JwtAccount].lastName
             /\ pass.claims.picture = users'[JwtAccount].avatar
        /\ /\ ~pass.reachable \/ JwtAccount = 0
           /\ pass.user = NoJwtUser
           /\ ~(pass.trigger = "update" /\ pass.session.given)
           => /\ pass.claims.id = pass.token.id
              /\ pass.claims.firstName = pass.token.firstName
              /\ pass.claims.lastName = pass.token.lastName
              /\ pass.claims.picture = pass.token.picture
    ]_vars

----------------------------------------------------------------------------
(* Claims on the refusals of registration and of the password change *)

\* C19: a registration or a set/change-password request refused for the shape
\* of its input is answered 400: the store being reachable, neither handler
\* answers 500.
C19_ShapeRefusals ==
  resp.op \in {"register", "patch"} => resp.status # 500

----------------------------------------------------------------------------
(* Claims on the entries of the login backoff *)

\* the step is a checkLoginRateLimit of key k
Checks(k) ==
  /\ resp'.op = "checkLogin"
  /\ loginKey(resp'.ip, resp'.email) = k
  /\ loginAttempts' # loginAttempts \/ resp' # resp

\* C20: per (ip, email) key, the first attempt is allowed and creates the
\* entry with count 1; an attempt before min(2^(count-1) s, 30 min) have
\* passed since lastAttempt is denied and leaves the entry as it was; an
\* attempt after the wait is allowed, sets lastAttempt to now and raises
\* count by one, or restarts it at 1 after 30 minutes or more of inactivity.
C20_BackoffEntry ==
  [][ \A k \in BackoffKeys :
        Checks(k) =>
          IF k \notin DOMAIN loginAttempts
            THEN /\ resp'.status = 200
                 /\ loginAttempts'[k] = [count |-> 1, lastAttempt |-> now]
            ELSE LET entry == loginAttempts[k]
                     since == now - entry.lastAttempt
                     wait == Min(Pow2(entry.count - 1) * 1000, 30 * 60 * 1000)
                 IN IF since < wait
                      THEN /\ resp'.status = 429
                           /\ loginAttempts'[k] = entry
                      ELSE /\ resp'.status = 200
                           /\ loginAttempts'[k].lastAttempt = now
                           /\ loginAttempts'[k].count =
                                IF since >= 30 * 60 * 1000 THEN 1 ELSE entry.count + 1
    ]_vars

\* an attempt was denied inside the wait that follows the third admitted one
C20_Witness ==
  /\ resp.op = "checkLogin" /\ resp.status = 429 /\ resp.waitTime > 0
  /\ loginKey(resp.ip, resp.email) \in DOMAIN loginAttempts
  /\ loginAttempts[loginKey(resp.ip, resp.email)].count >= 3
  /\ loginAttempts[loginKey(resp.ip, resp.email)].lastAttempt < now

----------------------------------------------------------------------------
(* Claims on what a finished login leaves of the backoff map *)

\* the step ends the login request that worker p held suspended
FinishedBy(p) == inflight[p].pc = "login" /\ inflight'[p] = Idle

\* C21: a successful login from (ip, email) removes the backoff entry of
\* that key and of no other, so that checkLoginRateLimit admits the next
\* attempt of the key with waitTime 0; it leaves the generic rate-limit
\* entries as they were, and a failed verification, which runs
\* incrementLoginAttempts on the account, leaves the backoff map as it was.
C21_LoginClearsBackoff ==
  [][ \A p \in Procs : FinishedBy(p) =>
        LET k == loginKey(inflight[p].ip, inflight[p].email)
            next == checkLoginRateLimit(loginAttempts', inflight[p].ip,
                                        inflight[p].email, now')
        IN
        /\ resp'.status = 200
             => /\ k \notin DOMAIN loginAttempts'
                /\ next.allowed /\ next.waitTime = 0
                /\ DOMAIN loginAttempts' = DOMAIN loginAttempts \ {k}
                /\ \A j \in DOMAIN loginAttempts' : loginAttempts'[j] = loginAttempts[j]
                /\ rateLimitStore' = rateLimitStore
        /\ resp'.status # 200
             => /\ users' = [users EXCEPT ![1] =
                                applyIncrement(@, incrementUpdate(inflight[p].snap, now))]
                /\ loginAttempts' = loginAttempts
                /\ rateLimitStore' = rateLimitStore
    ]_vars

\* a login has succeeded while the other key holds a backoff entry and the
\* generic limiter holds one
C21_Witness ==
  /\ resp.op = "login" /\ resp.status = 200
  /\ DOMAIN loginAttempts # {}
  /\ DOMAIN rateLimitStore # {}
  /\ users[1].lastLogin = now
  /\ now > 0

----------------------------------------------------------------------------
(* The lockout methods of the User model on their own: each is called on  *)
(* the document as it is stored, at any time and in any order             *)

IncrementLoginAttempts ==
  /\ users[1].loginAttempts < MaxAttempts
  /\ users' = [users EXCEPT ![1] = applyIncrement(@, incrementUpdate(@, now))]
  /\ resp' = [NoResp EXCEPT !.op = "incrementLoginAttempts"]
  /\ UNCHANGED <<now, rateLimitStore, loginAttempts, inflight, loginLog, unswept, tasks>>

UserResetLoginAttempts ==
  /\ users' = [users EXCEPT ![1] = applyReset(@, now)]
  /\ resp' = [NoResp EXCEPT !.op = "resetLoginAttempts"]
  /\ UNCHANGED <<now, rateLimitStore, loginAttempts, inflight, loginLog, unswept, tasks>>

MethodNext ==
  \/ Tick
  \/ IncrementLoginAttempts
  \/ UserResetLoginAttempts

MethodSpec == LockInit /\ [][MethodNext]_vars

\* the step is a call of incrementLoginAttempts
Increments == resp'.op = "incrementLoginAttempts" /\ users' # users

\* C22: incrementLoginAttempts on an account whose lock has expired makes
\* loginAttempts 1 and clears lockUntil; on any other account it adds 1 to
\* loginAttempts and sets lockUntil to now + 2 hours exactly when the count
\* after the increment is 5 or more and the account is not locked now; in
\* every other case lockUntil stays as it was, as does every other field.
C22_IncrementLoginAttempts ==
  [][ Increments =>
        LET a == users[1]
            b == users'[1]
            expired == a.lockUntil # NoDate /\ a.lockUntil < now
            locked == a.lockUntil # NoDate /\ a.lockUntil > now
        IN
        /\ expired => b.loginAttempts = 1 /\ b.lockUntil = NoDate
        /\ ~expired
             => /\ b.loginAttempts = a.loginAttempts + 1
                /\ IF a.loginAttempts + 1 >= 5 /\ ~locked
                     THEN b.lockUntil = now + 2 * 60 * 60 * 1000
                     ELSE b.lockUntil = a.lockUntil
        /\ b = [a EXCEPT !.loginAttempts = b.loginAttempts, !.lockUntil = b.lockUntil]
    ]_vars

\* the fifth failure in a row has just locked the account
C22_Witness ==
  /\ resp.op = "incrementLoginAttempts"
  /\ users[1].loginAttempts = MAX_LOGIN_ATTEMPTS
  /\ users[1].lockUntil = now + LOCK_TIME

\* states of the other cases of the method: a restart after an expired lock,
\* and a failure counted on a locked account
C22_Restarted ==
  /\ resp.op = "incrementLoginAttempts"
  /\ users[1].loginAttempts = 1 /\ users[1].lockUntil = NoDate
  /\ now > LOCK_TIME /\ users[1].lastLogin = NoDate

C22_CountedWhileLocked ==
  /\ resp.op = "incrementLoginAttempts"
  /\ users[1].loginAttempts = MAX_LOGIN_ATTEMPTS + 1
  /\ users[1].lockUntil > now

----------------------------------------------------------------------------
(* Claims on the reset of the lockout counters *)

\* an account whose loginAttempts is 0 has no lockUntil
ZeroMeansUnlocked ==
  \A i \in Ids(users) : users[i].loginAttempts = 0 => users[i].lockUntil = NoDate

\* C23: an account whose loginAttempts is 0 has no lockUntil; a successful
\* login writes loginAttempts 0, no lockUntil and lastLogin = now to the
\* account in one step, and no other step brings loginAttempts to 0.
C23_ResetClearsLock ==
  /\ []ZeroMeansUnlocked
  /\ [][ /\ \A p \in Procs :
              FinishedBy(p) /\ resp'.status = 200
                => users' = [users EXCEPT ![inflight[p].snap._id] =
                               [@ EXCEPT !.loginAttempts = 0, !.lockUntil = NoDate,
                                         !.lastLogin = now]]
         /\ \A i \in Ids(users) :
              users[i].loginAttempts # 0 /\ users'[i].loginAttempts = 0
                => /\ resp'.op = "login" /\ resp'.status = 200
                   /\ \E p \in Procs : FinishedBy(p) /\ inflight[p].snap._id = i
     ]_vars

\* a login has succeeded after the two hours of a lock, and reset the account
C23_Witness ==
  /\ resp.op = "login" /\ resp.status = 200
  /\ users[1].loginAttempts = 0
  /\ users[1].lockUntil = NoDate
  /\ users[1].lastLogin = now
  /\ now >= LOCK_TIME

----------------------------------------------------------------------------
(* The generic limiter with its periodic sweep. The callback of setInterval *)
(* runs between two handlers, at a time the limiter's callers do not know:  *)
(* it may run at any instant. unswept follows the same calls, never swept.  *)

Sweep ==
  /\ rateLimitStore' = sweep(rateLimitStore, now)
  /\ UNCHANGED <<now, users, loginAttempts, inflight, resp, loginLog, unswept, tasks>>

SweepCheckRateLimit ==
  LET shadow == checkRateLimit(unswept, "unknown", RegisterPath, rateLimitConfigs.auth, now)
  IN
  /\ CheckRateLimit("unknown", RegisterPath)
  /\ shadow.store[getRateLimitKey("unknown", RegisterPath)].count <= MaxWindowCount
  /\ unswept' = shadow.store

SweepCheckRateLimitByType ==
  LET shadow == checkRateLimitByType(unswept, "auth", "unknown", now) IN
  /\ CheckRateLimitByType("auth", "unknown")
  /\ shadow.store["auth:unknown"].count <= MaxWindowCount
  /\ unswept' = shadow.store

SweepNext ==
  \/ LimiterTick
  \/ Sweep
  \/ SweepCheckRateLimit
  \/ SweepCheckRateLimitByType

SweepSpec == Init /\ [][SweepNext]_vars

\* the step removed entries of the store
Swept ==
  /\ DOMAIN rateLimitStore' # DOMAIN rateLimitStore
  /\ DOMAIN rateLimitStore' \subseteq DOMAIN rateLimitStore

\* C24: a sweep removes no entry whose resetTime has not passed and alters
\* none; every call of the limiter is answered, and leaves the entry of its
\* key, as the same calls at the same times would without any sweep.
C24_SweepHarmless ==
  [][ /\ Swept
           => \A k \in DOMAIN rateLimitStore :
                rateLimitStore[k].resetTime >= now
                  => k \in DOMAIN rateLimitStore' /\ rateLimitStore'[k] = rateLimitStore[k]
      /\ \A k \in LimiterKeys :
           Called(k) =>
             LET ghost == rateLimitStep(unswept, k, rateLimitConfigs.auth, now) IN
             /\ resp'.status = 200 <=> ghost.allowed
             /\ resp'.status = 429 <=> ~ghost.allowed
             /\ resp'.waitTime = ghost.waitTime
             /\ rateLimitStore'[k] = ghost.store[k]
    ]_vars

\* a request was refused in its window after a sweep had removed the expired
\* entry of the other key
C24_Witness ==
  /\ resp.status = 429
  /\ \E k \in DOMAIN unswept, o \in DOMAIN rateLimitStore :
       /\ k \notin DOMAIN rateLimitStore
       /\ rateLimitStore[o].count > AuthMaxRequests
       /\ rateLimitStore[o].resetTime >= now

----------------------------------------------------------------------------
(* Both maps of the limiter and the sweep, which the timer fires again and *)
(* again: a sweep that has something to remove is not put off for ever     *)

SweepLiveCheckLogin ==
  /\ CheckLogin("unknown", "a@x.io")
  /\ loginAttempts'[loginKey("unknown", "a@x.io")].count <= MaxBackoff

SweepLiveNext ==
  \/ LimiterTick
  \/ Sweep
  \/ CheckRateLimitStep
  \/ SweepLiveCheckLogin

SweepLiveSpec == Init /\ [][SweepLiveNext]_vars /\ WF_vars(Sweep)

\* the window of the generic entry of key k has expired
Expired(k) == k \in DOMAIN rateLimitStore /\ rateLimitStore[k].resetTime < now

\* the backoff entry of key k has seen no attempt for 30 minutes
Inactive(k) ==
  /\ k \in DOMAIN loginAttempts
  /\ now - loginAttempts[k].lastAttempt >= BackoffCapMs

\* the generic entries: an expired entry is removed, or replaced by a call
GenericSwept == \A k \in LimiterKeys : Expired(k) ~> ~Expired(k)

\* C25: an entry of either map that has expired, the generic entry by its
\* window and the backoff entry by 30 minutes without an attempt, is in the
\* end removed by the sweep unless a call touches it again.
C25_EntriesSwept ==
  /\ GenericSwept
  /\ \A k \in BackoffKeys : Inactive(k) ~> ~Inactive(k)

----------------------------------------------------------------------------
(* The credentials provider of NextAuth, which the login form calls, next *)
(* to the login route, on the account of LockInit                         *)

\* Credentials.authorize: the user object it returns makes NextAuth issue a
\* session (status 200 here), null makes it answer CredentialsSignin (401)
Authorize(rawEmail, pw) ==
  LET found == findOne(users, toLowerCase(rawEmail))
      user == DocOf(users, found)
      refused == [NoResp EXCEPT !.op = "authorize", !.status = 401,
                                !.email = toLowerCase(rawEmail), !.pw = pw]
  IN
  /\ resp' = IF ~loginSchemaOk(rawEmail, pw) THEN refused
             ELSE IF found = 0 \/ user.password = NoPassword THEN refused
             ELSE IF ~bcryptCompare(pw, user.password) THEN refused
             ELSE [refused EXCEPT !.status = 200,
                                  !.principal = [userId |-> user._id, email |-> user.email]]
  /\ UNCHANGED <<now, users, rateLimitStore, loginAttempts, inflight, loginLog, unswept, tasks>>

AuthorizeStep ==
  \E e \in {"A@x.io", "b@x.io"}, pw \in {"Passw0rd!", "Wr0ng#Pass1"} : Authorize(e, pw)

AuthorizeLoginStart ==
  /\ LoginStartOver({<<>>}, {"A@x.io"}, {"Passw0rd!", "Wr0ng#Pass1"})
  /\ UNCHANGED <<loginLog, unswept, tasks>>

AuthorizeNext ==
  \/ Tick
  \/ AuthorizeLoginStart
  \/ LoginFinishStep
  \/ AuthorizeStep

AuthorizeSpec == LockInit /\ [][AuthorizeNext]_vars

\* the step is a call of authorize for the account
Authorizes == resp'.op = "authorize" /\ resp' # resp /\ resp'.email = Acct.email

\* C26: authorize refuses a locked account even with the right password,
\* and a password mismatch in authorize adds to loginAttempts as it does in
\* the login route; nothing is issued for the account while it is locked.
C26_AuthorizeLocks ==
  [][ Authorizes =>
        /\ isLocked(Acct, now) => resp'.status # 200
        /\ ~comparePassword(Acct, resp'.pw) /\ ~isLocked(Acct, now)
             => Acct'.loginAttempts # Acct.loginAttempts
    ]_vars

----------------------------------------------------------------------------
(* Claims on who is handed a legacy token *)

\* the step answers a request with a legacy token for an account that
\* existed before the step
IssuesForExisting ==
  /\ resp' # resp
  /\ resp'.token.kind = "ok"
  /\ resp'.token.userId \in Ids(users)

\* C27: a legacy token for an account that exists already is issued only to
\* a login whose password matches the hash the request read from the
\* account; a registration never yields a token for an existing account.
C27_TokenNeedsPassword ==
  [][ IssuesForExisting =>
        /\ resp'.op = "login"
        /\ \E p \in Procs :
             /\ FinishedBy(p)
             /\ inflight[p].snap._id = resp'.token.userId
             /\ comparePassword(inflight[p].snap, inflight[p].pw)
    ]_vars

----------------------------------------------------------------------------
(* Claims on the lock under concurrent failures *)

\* C28: when the last of the failed logins in flight has completed, an
\* account whose loginAttempts is 5 or more is locked, lockUntil being set
\* and in the future.
C28_LockNotMissed ==
  [][ /\ FailedLoginEnds
      /\ \A q \in Procs : inflight'[q].pc = "idle"
      /\ Acct'.loginAttempts >= MAX_LOGIN_ATTEMPTS
      => Acct'.lockUntil # NoDate /\ Acct'.lockUntil > now
    ]_vars

----------------------------------------------------------------------------
(* Claims on the range of the backoff count *)

\* C29: every entry of the backoff map has a count from 1 to 12 and no
\* attempt is told to wait more than 1800 seconds; the attempt admitted on
\* an entry of count 12 comes 30 minutes or more after the last one and
\* restarts the count at 1.
C29_CountBounded ==
  /\ [](\A k \in DOMAIN loginAttempts :
          loginAttempts[k].count >= 1 /\ loginAttempts[k].count <= 12)
  /\ [](resp.op = "checkLogin" => resp.waitTime >= 0 /\ resp.waitTime <= 1800)
  /\ [][ \A k \in BackoffKeys :
           /\ Checks(k)
           /\ k \in DOMAIN loginAttempts
           /\ loginAttempts[k].count = 12
           /\ resp'.status = 200
           => /\ now - loginAttempts[k].lastAttempt >= 1800 * 1000
              /\ loginAttempts'[k] = [count |-> 1, lastAttempt |-> now]
       ]_vars

\* an entry has reached count 12 and an attempt on it was told to wait
C29_Witness ==
  /\ resp.op = "checkLogin" /\ resp.status = 429
  /\ loginKey(resp.ip, resp.email) \in DOMAIN loginAttempts
  /\ loginAttempts[loginKey(resp.ip, resp.email)].count = 12
  /\ resp.waitTime > 1024

\* the attempt admitted on an entry of count 12 has restarted it
C29_Restarted ==
  /\ resp.op = "checkLogin" /\ resp.status = 200
  /\ loginKey(resp.ip, resp.email) \in DOMAIN loginAttempts
  /\ loginAttempts[loginKey(resp.ip, resp.email)] = [count |-> 1, lastAttempt |-> now]
  /\ now = (Pow2(11) - 1) * 1000 + BackoffCapMs

----------------------------------------------------------------------------
(* The task routes: /api/tasks and /api/tasks/[id] *)

TaskStatuses == {"todo", "in-progress", "completed"}

NullTask == [_id |-> 0, user |-> 0, title |-> "", status |-> "", deleted |-> TRUE]

\* the bodies of the requests: a title, a status ("" when absent) and a
\* user key (0 when absent) that names an account
TaskBodies ==
  {[title |-> "t1", status |-> "", user |-> 0],
   [title |-> "t2", status |-> "", user |-> 2],
   [title |-> "x --", status |-> "", user |-> 0],
   [title |-> "t1", status |-> "bogus", user |-> 2]}

\* the credentials of the requests: none, the session of the first account
\* and a legacy token of the second
TaskCreds ==
  {NoCreds,
   [NoCreds EXCEPT !.session = SessionFor("a@x.io")],
   [NoCreds EXCEPT !.authorization = Bearer(generateToken(2, "b@x.io"))]}

\* the ids of the requests: 0 is a string that is no ObjectId
TaskIdInputs == 0..(MaxTasks + 1)

validateTaskId(id) == id # 0

\* body.title ? sanitizeInput(body.title) : undefined
sanitizedTitle(body) == IF body.title # "" THEN sanitizeInput(body.title) ELSE ""

\* createTaskSchema.parse: unknown keys are stripped, status defaults to todo
createTaskSchema(body) ==
  [ok |-> sanitizedTitle(body) # "" /\ body.status \in TaskStatuses \cup {""},
   data |-> [title |-> sanitizedTitle(body),
             status |-> IF body.status = "" THEN "todo" ELSE body.status]]

\* updateTaskSchema.parse: every key is optional, unknown keys are stripped
updateTaskSchema(body) ==
  [ok |-> body.status \in TaskStatuses \cup {""},
   data |-> [title |-> sanitizedTitle(body), status |-> body.status]]

\* the update document of PUT and PATCH applied to a task: the keys the
\* schema kept
taskUpdate(doc, data) ==
  [doc EXCEPT !.title = IF data.title # "" THEN data.title ELSE @,
              !.status = IF data.status # "" THEN data.status ELSE @]

\* a lookup by _id alone
MutTaskFind(ts, id, userId) ==
  IF id \in DOMAIN ts /\ ~ts[id].deleted THEN id ELSE 0

\* Task.findOne({ _id: id, user: authUser.userId }), and the filter of
\* findOneAndUpdate and findOneAndDelete: 0 when no document matches
taskFind(ts, id, userId) ==
  IF id \in DOMAIN ts /\ ~ts[id].deleted /\ ts[id].user = userId THEN id ELSE 0

\* Task.find({ user: authUser.userId }): the filter of the list
taskFilter(ts, userId) ==
  {ts[i] : i \in {j \in DOMAIN ts : ~ts[j].deleted /\ ts[j].user = userId}}

TaskOps == {"taskPost", "taskList", "taskGet", "taskPut", "taskPatch", "taskDelete"}

\* a request to one of the task routes: authentication, the limiter of the
\* address, the id of the route, the body, and then the one store operation
TaskRequest(op, xff, creds, id, body) ==
  LET ip == clientIp(xff)
      auth == authenticateRequest(creds, users)
      rl == checkRateLimitByType(rateLimitStore, "api", ip, now)
      base == [AuthSuccess(op, creds, auth) EXCEPT !.ip = ip, !.taskId = id, !.ran = FALSE]
      refuse(status, msg) == [base EXCEPT !.status = status, !.msg = msg, !.email = ""]
      hasId == op \in {"taskGet", "taskPut", "taskPatch", "taskDelete"}
      hasBody == op \in {"taskPost", "taskPut", "taskPatch"}
      parsed == IF op = "taskPost" THEN createTaskSchema(body) ELSE updateTaskSchema(body)
      found == taskFind(tasks, id, auth.user.userId)
      newId == Len(tasks) + 1
  IN
  /\ UNCHANGED <<now, users, loginAttempts, inflight, loginLog, unswept>>
  /\ IF auth.error # "" \/ auth.user = NoPrincipal
       THEN /\ resp' = [AuthFailure(op, creds, auth, "Not authenticated")
                          EXCEPT !.ip = ip, !.taskId = id]
            /\ UNCHANGED <<rateLimitStore, tasks>>
     ELSE /\ rl.store["api:" \o ip].count
               <= (IF rl.allowed THEN MaxApiCalls ELSE ApiMaxRequests + 1)
          /\ rateLimitStore' = rl.store
          /\ IF ~rl.allowed
               THEN /\ resp' = [refuse(429, MsgRate) EXCEPT !.waitTime = rl.waitTime]
                    /\ UNCHANGED tasks
             ELSE IF hasId /\ ~validateTaskId(id)
               THEN /\ resp' = refuse(400, "Invalid task ID")
                    /\ UNCHANGED tasks
             ELSE IF hasBody /\ hasInjection(sanitizedTitle(body))
               THEN /\ resp' = refuse(400, "Invalid input detected")
                    /\ UNCHANGED tasks
             ELSE IF hasBody /\ ~parsed.ok
               THEN /\ resp' = refuse(400, MsgValidation)
                    /\ UNCHANGED tasks
             ELSE IF op = "taskPost"
               THEN /\ Len(tasks) < MaxTasks
                    /\ tasks' = Append(tasks, [_id |-> newId, user |-> auth.user.userId,
                                               title |-> parsed.data.title,
                                               status |-> parsed.data.status,
                                               deleted |-> FALSE])
                    /\ resp' = [base EXCEPT !.status = 201, !.taskId = newId,
                                            !.tasks = {tasks'[newId]}]
             ELSE IF op = "taskList"
               THEN /\ resp' = [base EXCEPT !.tasks = taskFilter(tasks, auth.user.userId)]
                    /\ UNCHANGED tasks
             ELSE IF found = 0
               THEN /\ resp' = refuse(404, "Task not found")
                    /\ UNCHANGED tasks
             ELSE IF op = "taskGet"
               THEN /\ resp' = [base EXCEPT !.tasks = {tasks[found]}]
                    /\ UNCHANGED tasks
             ELSE IF op = "taskDelete"
               THEN /\ tasks' = [tasks EXCEPT ![found] = NullTask]
                    /\ resp' = base
             ELSE /\ tasks' = [tasks EXCEPT ![found] = taskUpdate(@, parsed.data)]
                  /\ resp' = [base EXCEPT !.tasks = {tasks'[found]}]

TaskPost == \E creds \in TaskCreds, body \in TaskBodies :
  TaskRequest("taskPost", <<>>, creds, 0, body)

TaskList == \E xff \in Xffs, creds \in TaskCreds :
  TaskRequest("taskList", xff, creds, 0, [title |-> "", status |-> "", user |-> 0])

TaskGet == \E xff \in Xffs, creds \in TaskCreds, id \in TaskIdInputs :
  TaskRequest("taskGet", xff, creds, id, [title |-> "", status |-> "", user |-> 0])

TaskPut == \E creds \in TaskCreds, id \in TaskIdInputs, body \in TaskBodies :
  TaskRequest("taskPut", <<>>, creds, id, body)

TaskPatch == \E creds \in TaskCreds, id \in TaskIdInputs, body \in TaskBodies :
  TaskRequest("taskPatch", <<>>, creds, id, body)

TaskDelete == \E creds \in TaskCreds, id \in TaskIdInputs :
  TaskRequest("taskDelete", <<>>, creds, id, [title |-> "", status |-> "", user |-> 0])

\* the two accounts of AuthInit; the address 10.0.0.1 has used up its
\* hundred requests of the minute
TaskInit ==
  /\ now = 0
  /\ users = <<[NewDoc(1, "a@x.io", "Ann", "Lee", "", "credentials", "", FALSE)
                 EXCEPT !.password = bcryptHash("Passw0rd!")],
               NewDoc(2, "b@x.io", "Bob", "Ray", "pic", "google", "g-1", TRUE)>>
  /\ rateLimitStore =
       MapSet(EmptyMap, "api:10.0.0.1",
              [count |-> ApiMaxRequests, resetTime |-> ApiWindowMs])
  /\ loginAttempts = EmptyMap
  /\ inflight = [p \in Procs |-> Idle]
  /\ loginLog = EmptyMap
  /\ unswept = EmptyMap
  /\ tasks = <<>>
  /\ resp = NoResp

TaskNext ==
  \/ TaskPost
  \/ TaskList
  \/ TaskGet
  \/ TaskPut
  \/ TaskPatch
  \/ TaskDelete

TaskSpec == TaskInit /\ [][TaskNext]_vars

----------------------------------------------------------------------------
(* Claims on the ownership of tasks *)

\* the step answers a request to a task route
TaskStep ==
  /\ resp'.op \in TaskOps
  /\ resp' # resp \/ tasks' # tasks \/ rateLimitStore' # rateLimitStore

Present(ts, i) == i \in DOMAIN ts /\ ~ts[i].deleted

\* the request names a task that exists and is owned by another account
\* than the authenticated principal's
NamesForeignTask ==
  /\ resp'.op \in {"taskGet", "taskPut", "taskPatch", "taskDelete"}
  /\ resp'.principal # NoPrincipal
  /\ Present(tasks, resp'.taskId)
  /\ tasks[resp'.taskId].user # resp'.principal.userId

\* a task is created with the principal as owner, its owner never changes,
\* and a task is returned, changed or deleted only for its owner
OwnerScoped ==
  LET me == resp'.principal.userId IN
  /\ \A i \in DOMAIN tasks' \ DOMAIN tasks :
       resp'.op = "taskPost" /\ me # 0 /\ tasks'[i].user = me
  /\ \A i \in DOMAIN tasks :
       /\ Present(tasks, i) /\ Present(tasks', i) => tasks'[i].user = tasks[i].user
       /\ tasks'[i] # tasks[i] => me # 0 /\ tasks[i].user = me
  /\ \A t \in resp'.tasks : me # 0 /\ t.user = me

====
